---- MODULE Spec2Model ----
(***************************************************************************)
(* Model of the voice overlay coordinator of rust_tui/src/bin/             *)
(* codex_overlay.rs: the select loop of main, the prompt tracker, the      *)
(* voice manager, and the pending-transcript queue.                        *)
(*                                                                         *)
(* Time is an integer clock that counts whole units of 25 ms, half a       *)
(* timeout of the coordinator's select; an Instant is a clock value, a     *)
(* Duration a number of units.  An event is handled from the instant the   *)
(* select receives it, before the timeout; the default arm runs when a     *)
(* whole timeout has passed with no event.  A handler takes time where it  *)
(* waits in writer_tx.send for room in the bounded channel: an             *)
(* Instant::now() read after a send returns the later instant, and the     *)
(* next select begins when the handler has ended.  A write to the PTY      *)
(* returns at the instant it is made.                                      *)
(*                                                                         *)
(* scope names the inputs the environment of a specification draws from    *)
(* (texts, sources, PTY chunks, the waits of a handler's sends) and whether *)
(* the status line is observed.                                            *)
(* No handler reads the status except set_status, to suppress a repeated   *)
(* text: a specification that does not observe the status keeps            *)
(* current_status, status_clear_deadline and writer_out empty.             *)
(*                                                                         *)
(* A text is a sequence of one-character strings.  Option<T> is a sequence *)
(* of length 0 (None) or 1 (Some).                                         *)
(***************************************************************************)
EXTENDS Naturals, Integers, Sequences, FiniteSets, TLC

VARIABLES
    clock,                  \* the monotonic clock: the instant the last step ended
    voice_send_mode,        \* config.voice_send_mode
    auto_voice_enabled,
    last_auto_trigger_at,
    last_enter_at,
    pending_transcripts,
    status_clear_deadline,
    current_status,
    prompt_tracker,         \* PromptTracker fields
    voice_manager,          \* VoiceManager fields (job, cancel_pending, active_source)
    running,                \* the loop flag of main
    pc,                     \* where main is: "start", "loop", "send" or "done"
    pty_out,                \* the PTY writes of the last step, in order
    writer_out,             \* what the last step sent to the writer thread, in order
    step,                   \* the last call of a function harness and its result
    writer,                 \* the writer thread: its channel, locals and last writes
    parser,                 \* the input thread's InputParser and the events of its read
    sigwinch_received,      \* the atomic flag SIGWINCH_RECEIVED
    scope                   \* the inputs of this run (constant along a behaviour)

vars == <<clock, voice_send_mode, auto_voice_enabled, last_auto_trigger_at,
          last_enter_at, pending_transcripts, status_clear_deadline,
          current_status, prompt_tracker, voice_manager, running, pc,
          pty_out, writer_out, step, writer, parser, sigwinch_received,
          scope>>

----------------------------------------------------------------------------
(* Bounds of the model *)

MaxTime == 1
MaxLoopTime == 3
TranscriptIdleTimeout == 1
AutoIdleTimeout == 1
ClearAfterShort == 1
ClearAfterLong == 2
MaxKeySteps == 1
MaxBeginTime == 2

(* Program constants *)

MAX_PENDING_TRANSCRIPTS == 5

\* Line 370: default(Duration::from_millis(50)), in half ticks of 25 ms.
TickLen == 2

----------------------------------------------------------------------------
(* Option<T> *)

None == <<>>
Some(x) == <<x>>
IsSome(o) == o # <<>>
Unwrap(o) == o[1]

----------------------------------------------------------------------------
(* Texts *)

SP == " "
CR == "\r"
LF == "\n"
\* char::is_whitespace over the characters of the model's texts.
WhiteSpace == {SP, "\t", LF, CR}

RECURSIVE TrimStart(_)
TrimStart(s) ==
    IF s # <<>> /\ Head(s) \in WhiteSpace THEN TrimStart(Tail(s)) ELSE s

RECURSIVE TrimEnd(_)
TrimEnd(s) ==
    IF s # <<>> /\ s[Len(s)] \in WhiteSpace
    THEN TrimEnd(SubSeq(s, 1, Len(s) - 1))
    ELSE s

\* str::trim
Trim(s) == TrimEnd(TrimStart(s))

\* [String]::join(" ")
RECURSIVE JoinSpace(_)
JoinSpace(parts) ==
    IF parts = <<>> THEN <<>>
    ELSE IF Len(parts) = 1 THEN parts[1]
    ELSE parts[1] \o <<SP>> \o JoinSpace(Tail(parts))

----------------------------------------------------------------------------
(* PromptTracker *)

\* The prompt characters of looks_like_prompt that can occur in current_line,
\* which holds printable ASCII only.
PromptChars == {">", "$", "#"}
MaxPromptLen == 80

\* Bytes that are no one-character string are named: ESC is 0x1b, BEL is 0x07
\* (a C0 control other than \n, \r, \t).
ESC == "ESC"
BEL == "BEL"

\* The control bytes of the overlay, by their ASCII names: 0x11, 0x12, 0x16,
\* 0x14, 0x1d, 0x1c and 0x1f.
DC1 == "DC1"
DC2 == "DC2"
SYN == "SYN"
DC4 == "DC4"
GS == "GS"
FS == "FS"
US == "US"

\* The C0 controls of the model's alphabet that the VT parser executes in
\* every state (0x00-0x17, 0x19, 0x1c-0x1f).
C0Controls == {LF, CR, "\t", BEL, DC1, DC2, SYN, DC4, GS, FS, US}

\* The bytes 0x20..0x2f of the model's alphabet: intermediates of an escape
\* or control sequence.
IntermediateBytes == {SP, "#", "$"}

\* The bytes 0x30..0x39 and 0x3b of the model's alphabet: parameters of a
\* control sequence.
ParamBytes == {"0", "4", "8", ";"}

\* The bytes 0x3c..0x3f of the model's alphabet: private markers of a control
\* sequence.
PrivateBytes == {">"}

\* is_csi_final: the bytes 0x40..0x7e of the model's alphabet.
CsiFinalBytes == {"x", "c", "m", "u", "A", "[", "a", "b"}
is_csi_final(byte) == byte \in CsiFinalBytes

\* u8::is_ascii_graphic: the printable ASCII bytes of the model's alphabet.
Graphic == CsiFinalBytes \cup {">", "$", "#", ";", "0", "4", "8"}

\* Regex::is_match for an anchored literal pattern ^line$.
regex_is_match(regex, line) == line = regex

looks_like_prompt(line) ==
    LET trimmed == TrimEnd(line) IN
    IF trimmed = <<>> \/ Len(trimmed) > MaxPromptLen
    THEN FALSE
    ELSE trimmed[Len(trimmed)] \in PromptChars

matches_prompt(t, line) ==
    IF IsSome(t.regex) THEN regex_is_match(Unwrap(t.regex), line)
    ELSE IF IsSome(t.learned_prompt)
         THEN TrimEnd(line) = TrimEnd(Unwrap(t.learned_prompt))
         ELSE FALSE

update_prompt_seen(t, now) == [t EXCEPT !.last_prompt_seen_at = Some(now)]

\* A faulty flush_line: the completed line is recorded and never compared
\* with the prompt.
flush_line_records_only(t, now) ==
    LET line == t.current_line
        t1 == [t EXCEPT !.current_line = <<>>]
    IN  IF Trim(line) = <<>> THEN t1
        ELSE [t1 EXCEPT !.last_line = Some(line)]

flush_line(t, now) ==
    LET line == t.current_line
        t1 == [t EXCEPT !.current_line = <<>>]
    IN  IF Trim(line) = <<>> THEN t1
        ELSE LET t2 == [t1 EXCEPT !.last_line = Some(line)] IN
             IF matches_prompt(t2, line) THEN update_prompt_seen(t2, now) ELSE t2

\* The per-byte loop of feed_output over the cleaned bytes.
RECURSIVE feed_bytes(_, _, _)
feed_bytes(t, bytes, now) ==
    IF bytes = <<>> THEN t
    ELSE LET byte == Head(bytes)
             t1 == IF byte = LF THEN flush_line(t, now)
                   ELSE IF byte = CR THEN [t EXCEPT !.current_line = <<>>]
                   ELSE IF byte = "\t" THEN [t EXCEPT !.current_line = Append(@, SP)]
                   ELSE IF byte \in Graphic \/ byte = SP
                        THEN [t EXCEPT !.current_line = Append(@, byte)]
                   ELSE t
         IN  feed_bytes(t1, Tail(bytes), now)

\* The VT parser of strip_ansi_preserve_controls, started afresh for each
\* chunk, over the model's alphabet (which has no byte that opens a string
\* sequence: ], P, X, ^, _).  Characters printed in the ground state and the
\* executed controls \n, \r, \t are kept; other controls are executed to
\* nothing in every state, and escape sequences (ESC, intermediates, final)
\* and control sequences (ESC [, parameters, intermediates, final) are
\* dropped with their final byte.
RECURSIVE vte_advance(_, _)
vte_advance(state, bytes) ==
    IF bytes = <<>> THEN <<>>
    ELSE LET byte == Head(bytes)
             rest == Tail(bytes)
         IN  IF byte \in C0Controls
             THEN (IF byte \in {LF, CR, "\t"} THEN <<byte>> ELSE <<>>)
                      \o vte_advance(state, rest)
             ELSE IF byte = ESC THEN vte_advance("escape", rest)
             ELSE IF state = "ground" THEN <<byte>> \o vte_advance("ground", rest)
             ELSE IF state = "escape"
                  THEN IF byte = "[" THEN vte_advance("csi_entry", rest)
                       ELSE IF byte \in IntermediateBytes
                            THEN vte_advance("escape_intermediate", rest)
                       ELSE vte_advance("ground", rest)
             ELSE IF state = "escape_intermediate"
                  THEN IF byte \in IntermediateBytes
                       THEN vte_advance("escape_intermediate", rest)
                       ELSE vte_advance("ground", rest)
             ELSE IF is_csi_final(byte) THEN vte_advance("ground", rest)
             ELSE IF state = "csi_entry"
                  THEN IF byte \in IntermediateBytes
                       THEN vte_advance("csi_intermediate", rest)
                       ELSE vte_advance("csi_param", rest)
             ELSE IF state = "csi_param"
                  THEN IF byte \in ParamBytes THEN vte_advance("csi_param", rest)
                       ELSE IF byte \in IntermediateBytes
                            THEN vte_advance("csi_intermediate", rest)
                       ELSE vte_advance("csi_ignore", rest)
             ELSE IF state = "csi_intermediate"
                  THEN IF byte \in IntermediateBytes
                       THEN vte_advance("csi_intermediate", rest)
                       ELSE vte_advance("csi_ignore", rest)
             ELSE vte_advance("csi_ignore", rest)

strip_ansi_preserve_controls(bytes) == vte_advance("ground", bytes)

feed_output(t, bytes, now) ==
    feed_bytes([t EXCEPT !.last_output_at = now, !.has_seen_output = TRUE],
               strip_ansi_preserve_controls(bytes), now)

\* Instant::duration_since saturates at zero.
duration_since(later, earlier) == IF later >= earlier THEN later - earlier ELSE 0

\* A faulty on_idle: any non-blank candidate is learned, whether or not it
\* looks like a prompt.
on_idle_learns_any_line(t, now, idle_timeout) ==
    IF ~t.has_seen_output THEN t
    ELSE IF duration_since(now, t.last_output_at) < idle_timeout THEN t
    ELSE LET candidate == IF t.current_line # <<>> THEN t.current_line
                          ELSE IF IsSome(t.last_line) THEN Unwrap(t.last_line)
                          ELSE <<>>
         IN  IF Trim(candidate) = <<>> THEN t
             ELSE IF t.learned_prompt = None /\ t.regex = None
                  THEN [t EXCEPT !.learned_prompt = Some(candidate),
                                 !.last_prompt_seen_at = Some(now)]
             ELSE IF matches_prompt(t, candidate)
                  THEN update_prompt_seen(t, now)
                  ELSE t

on_idle(t, now, idle_timeout) ==
    IF ~t.has_seen_output THEN t
    ELSE IF duration_since(now, t.last_output_at) < idle_timeout THEN t
    ELSE LET candidate == IF t.current_line # <<>> THEN t.current_line
                          ELSE IF IsSome(t.last_line) THEN Unwrap(t.last_line)
                          ELSE <<>>
         IN  IF Trim(candidate) = <<>> THEN t
             ELSE IF t.learned_prompt = None /\ t.regex = None
                  THEN IF ~looks_like_prompt(candidate) THEN t
                       ELSE [t EXCEPT !.learned_prompt = Some(candidate),
                                      !.last_prompt_seen_at = Some(now)]
             ELSE IF matches_prompt(t, candidate)
                  THEN update_prompt_seen(t, now)
                  ELSE t

note_activity(t, now) == [t EXCEPT !.last_output_at = now, !.has_seen_output = TRUE]

idle_ready(t, now, idle_timeout) ==
    duration_since(now, t.last_output_at) >= idle_timeout

PromptTracker_new(regex, now) ==
    [regex |-> regex, learned_prompt |-> None, last_prompt_seen_at |-> None,
     last_output_at |-> now, has_seen_output |-> FALSE,
     current_line |-> <<>>, last_line |-> None]

----------------------------------------------------------------------------
(* Readiness *)

\* A faulty prompt_ready: a prompt at the instant of the last Enter counts.
prompt_ready_at_same_instant(t, enter_at) ==
    IF IsSome(t.last_prompt_seen_at) /\ IsSome(enter_at)
    THEN Unwrap(t.last_prompt_seen_at) >= Unwrap(enter_at)
    ELSE IsSome(t.last_prompt_seen_at)

prompt_ready(t, enter_at) ==
    IF IsSome(t.last_prompt_seen_at) /\ IsSome(enter_at)
    THEN Unwrap(t.last_prompt_seen_at) > Unwrap(enter_at)
    ELSE IF IsSome(t.last_prompt_seen_at) /\ enter_at = None THEN TRUE
    ELSE FALSE

\* A faulty transcript_ready: the idle fallback applies whether or not a
\* prompt has been seen.
transcript_ready_idle_always(t, enter_at, now, transcript_idle_timeout) ==
    IF prompt_ready(t, enter_at) THEN TRUE
    ELSE idle_ready(t, now, transcript_idle_timeout)

transcript_ready(t, enter_at, now, transcript_idle_timeout) ==
    IF prompt_ready(t, enter_at) THEN TRUE
    ELSE IF t.last_prompt_seen_at = None
         THEN idle_ready(t, now, transcript_idle_timeout)
         ELSE FALSE

----------------------------------------------------------------------------
(* The pending-transcript queue *)

PendingTranscript(text, source, mode) ==
    [text |-> text, source |-> source, mode |-> mode]

\* A faulty push: on a full queue the new transcript is dropped, not the oldest.
push_pending_transcript_drops_newest(pending, transcript) ==
    IF Len(pending) >= MAX_PENDING_TRANSCRIPTS
    THEN [pending |-> pending, dropped |-> TRUE]
    ELSE [pending |-> Append(pending, transcript), dropped |-> FALSE]

push_pending_transcript(pending, transcript) ==
    IF Len(pending) >= MAX_PENDING_TRANSCRIPTS
    THEN [pending |-> Append(Tail(pending), transcript), dropped |-> TRUE]
    ELSE [pending |-> Append(pending, transcript), dropped |-> FALSE]

\* VoiceCaptureSource::label
source_label(source) == IF source = "Native" THEN "Rust" ELSE "Python"

\* A faulty merge loop: it does not stop at an entry of another mode.
RECURSIVE merge_loop_across_modes(_, _, _, _)
merge_loop_across_modes(pending, mode, parts, sources) ==
    IF pending = <<>>
    THEN [pending |-> pending, parts |-> parts, sources |-> sources]
    ELSE IF Trim(Head(pending).text) # <<>>
    THEN merge_loop_across_modes(Tail(pending), mode,
                                 Append(parts, Trim(Head(pending).text)),
                                 Append(sources, Head(pending).source))
    ELSE merge_loop_across_modes(Tail(pending), mode, parts, sources)

\* The while loop of merge_pending_transcripts.
RECURSIVE merge_loop(_, _, _, _)
merge_loop(pending, mode, parts, sources) ==
    IF pending = <<>> \/ Head(pending).mode # mode
    THEN [pending |-> pending, parts |-> parts, sources |-> sources]
    ELSE LET next == Head(pending)
             trimmed == Trim(next.text)
         IN  IF trimmed # <<>>
             THEN merge_loop(Tail(pending), mode, Append(parts, trimmed),
                             Append(sources, next.source))
             ELSE merge_loop(Tail(pending), mode, parts, sources)

merge_pending_transcripts(pending) ==
    IF pending = <<>> THEN [pending |-> pending, batch |-> None]
    ELSE LET mode == Head(pending).mode
             r == merge_loop(pending, mode, <<>>, <<>>)
         IN  IF r.parts = <<>> THEN [pending |-> r.pending, batch |-> None]
             ELSE LET label ==
                          IF \A i \in 1..Len(r.sources) : r.sources[i] = r.sources[1]
                          THEN source_label(r.sources[1])
                          ELSE "Mixed pipelines"
                  IN  [pending |-> r.pending,
                       batch |-> Some([text |-> JoinSpace(r.parts),
                                       label |-> label, mode |-> mode])]

----------------------------------------------------------------------------
(* Status and transcript delivery.  A handler works on a record s of the   *)
(* coordinator's mutable state; pty_ok says whether the PTY accepts the    *)
(* writes of this handler.                                                 *)

\* A status text: what it says, the pipeline label, the number of the note
\* (dropped frames, or 1 for the fallback note; 0 for none) and the queued
\* count (0 for none).
StatusText(kind, label, note, queued) == <<kind, label, note, queued>>
Plain(kind) == StatusText(kind, "", 0, 0)

\* writer_tx.send(msg), as lines 157, 361, 374, 549 and 1058 call it: the
\* message is queued for the writer when the channel has room for it, which
\* this send waits for as long as the next of the handler's waits says.  s.t
\* is the instant Instant::now() returns at this point of the handler.
writer_send(s, msg) ==
    [s EXCEPT !.writer_out = Append(@, msg),
              !.t = IF s.waits = <<>> THEN @ ELSE @ + Head(s.waits),
              !.waits = IF @ = <<>> THEN @ ELSE Tail(@)]

\* Lines 1048-1063: a repeated text is not sent again; the deadline is taken
\* from the clock after the send has returned (line 1062).
set_status(s, text, clear_after) ==
    IF s.current_status = Some(text) THEN s
    ELSE LET s1 == writer_send(s, <<"Status", text>>)
         IN  [s1 EXCEPT !.current_status = Some(text),
                        !.status_clear_deadline =
                            IF clear_after = None THEN None
                            ELSE Some(s1.t + Unwrap(clear_after))]

\* What pty_out records for a write the PTY refused: the Err of send_bytes,
\* send_text or send_text_with_newline.
WriteFailed == <<"Err">>

\* PtyOverlaySession::send_text_with_newline: the text and the submit key.
send_text_with_newline(text) == text \o <<CR>>
\* PtyOverlaySession::send_text
send_text(text) == text

\* A faulty send_transcript: the submit key follows the text in insert mode too.
send_transcript_submits_in_insert(text, mode, pty_ok) ==
    LET trimmed == Trim(text) IN
    IF trimmed = <<>> THEN [ok |-> TRUE, value |-> FALSE, written |-> <<>>]
    ELSE IF pty_ok
         THEN [ok |-> TRUE, value |-> mode = "Auto",
               written |-> <<send_text_with_newline(trimmed)>>]
         ELSE [ok |-> FALSE, value |-> FALSE, written |-> <<WriteFailed>>]

send_transcript(text, mode, pty_ok) ==
    LET trimmed == Trim(text) IN
    IF trimmed = <<>> THEN [ok |-> TRUE, value |-> FALSE, written |-> <<>>]
    ELSE IF mode = "Auto"
         THEN IF pty_ok
              THEN [ok |-> TRUE, value |-> TRUE,
                    written |-> <<send_text_with_newline(trimmed)>>]
              ELSE [ok |-> FALSE, value |-> FALSE, written |-> <<WriteFailed>>]
         ELSE IF pty_ok
              THEN [ok |-> TRUE, value |-> FALSE, written |-> <<send_text(trimmed)>>]
              ELSE [ok |-> FALSE, value |-> FALSE, written |-> <<WriteFailed>>]

deliver_transcript(s, text, label, mode, queued_remaining, drop_note, pty_ok) ==
    LET status == StatusText("Transcript ready", label, drop_note, queued_remaining)
        s1 == set_status(s, status, Some(ClearAfterShort))
        r == send_transcript(text, mode, pty_ok)
    IN  IF r.ok
        THEN [s |-> [s1 EXCEPT !.pty_out = @ \o r.written], sent_newline |-> r.value]
        ELSE [s |-> set_status([s1 EXCEPT !.pty_out = @ \o r.written],
                               Plain("Failed to send transcript (see log)"),
                               Some(ClearAfterShort)),
              sent_newline |-> FALSE]

\* A faulty flush: it does not wait for readiness.
try_flush_pending_unready(s, now, transcript_idle_timeout, pty_ok) ==
    IF s.pending_transcripts = <<>> THEN s
    ELSE LET m == merge_pending_transcripts(s.pending_transcripts)
             s1 == [s EXCEPT !.pending_transcripts = m.pending]
         IN  IF m.batch = None THEN s1
             ELSE LET d == deliver_transcript(s1, Unwrap(m.batch).text,
                                              Unwrap(m.batch).label,
                                              Unwrap(m.batch).mode,
                                              Len(s1.pending_transcripts), 0,
                                              pty_ok)
                  IN  IF d.sent_newline
                      THEN [d.s EXCEPT !.last_enter_at = Some(d.s.t)]
                      ELSE d.s

\* A faulty flush: the batch is delivered in the send mode of the moment.
try_flush_pending_current_mode(s, now, transcript_idle_timeout, pty_ok) ==
    IF s.pending_transcripts = <<>>
       \/ ~transcript_ready(s.prompt_tracker, s.last_enter_at, now,
                            transcript_idle_timeout)
    THEN s
    ELSE LET m == merge_pending_transcripts(s.pending_transcripts)
             s1 == [s EXCEPT !.pending_transcripts = m.pending]
         IN  IF m.batch = None THEN s1
             ELSE LET d == deliver_transcript(s1, Unwrap(m.batch).text,
                                              Unwrap(m.batch).label,
                                              voice_send_mode,
                                              Len(s1.pending_transcripts), 0,
                                              pty_ok)
                  IN  IF d.sent_newline
                      THEN [d.s EXCEPT !.last_enter_at = Some(d.s.t)]
                      ELSE d.s

\* Lines 588-610.  now is the instant the caller read; last_enter_at is taken
\* from the clock after deliver_transcript has returned (line 608).
try_flush_pending(s, now, transcript_idle_timeout, pty_ok) ==
    IF s.pending_transcripts = <<>>
       \/ ~transcript_ready(s.prompt_tracker, s.last_enter_at, now,
                            transcript_idle_timeout)
    THEN s
    ELSE LET m == merge_pending_transcripts(s.pending_transcripts)
             s1 == [s EXCEPT !.pending_transcripts = m.pending]
         IN  IF m.batch = None THEN s1
             ELSE LET batch == Unwrap(m.batch)
                      remaining == Len(s1.pending_transcripts)
                      d == deliver_transcript(s1, batch.text, batch.label, batch.mode,
                                              remaining, 0, pty_ok)
                  IN  IF d.sent_newline
                      THEN [d.s EXCEPT !.last_enter_at = Some(d.s.t)]
                      ELSE d.s

----------------------------------------------------------------------------
(* VoiceManager.  A job is the worker's channel and stop flag: chan holds   *)
(* the message the worker has sent and the coordinator has not received,   *)
(* alive says whether the worker still holds the sending end.               *)

VoiceManager_new(config) ==
    [config |-> config, recorder |-> FALSE, transcriber |-> FALSE,
     job |-> None, cancel_pending |-> FALSE, active_source |-> None]

\* f32 values: a finite number v, an infinity of sign v, or NaN.  The finite
\* values of the model are integers, which f32 holds exactly.
F32(v) == [k |-> "fin", v |-> v]
F32_INFINITY == [k |-> "inf", v |-> 1]
F32_NEG_INFINITY == [k |-> "inf", v |-> -1]
F32_NAN == [k |-> "nan", v |-> 0]

\* f32 addition.
f32_add(a, b) ==
    IF a.k = "nan" \/ b.k = "nan" THEN F32_NAN
    ELSE IF a.k = "inf" /\ b.k = "inf" THEN (IF a.v = b.v THEN a ELSE F32_NAN)
    ELSE IF a.k = "inf" THEN a
    ELSE IF b.k = "inf" THEN b
    ELSE F32(a.v + b.v)

\* f32::clamp with finite limits: NaN stays NaN.
f32_clamp(x, min, max) ==
    IF x.k = "nan" THEN x
    ELSE IF x.k = "inf" THEN (IF x.v < 0 THEN F32(min) ELSE F32(max))
    ELSE IF x.v < min THEN F32(min)
    ELSE IF x.v > max THEN F32(max)
    ELSE x

\* Lines 1363-1364.
MIN_DB == -80
MAX_DB == -10

\* A faulty adjustment: the sum is stored as it is and only the returned
\* value is clamped.
adjust_sensitivity_stores_sum(vm, delta_db) ==
    [vm |-> [vm EXCEPT !.config.voice_vad_threshold_db = f32_add(@, delta_db)],
     ret |-> f32_clamp(f32_add(vm.config.voice_vad_threshold_db, delta_db),
                       MIN_DB, MAX_DB)]

\* The manager it leaves and the threshold it returns.
adjust_sensitivity(vm, delta_db) ==
    LET next == f32_clamp(f32_add(vm.config.voice_vad_threshold_db, delta_db),
                          MIN_DB, MAX_DB)
    IN  [vm |-> [vm EXCEPT !.config.voice_vad_threshold_db = next],
         ret |-> next]

is_idle(vm) == vm.job = None

active_source(vm) == vm.active_source

\* VoiceJob::request_stop
request_stop(job) == [job EXCEPT !.stop_flag = TRUE]

cancel_capture(vm) ==
    IF IsSome(vm.job)
    THEN [vm |-> [vm EXCEPT !.job = Some(request_stop(Unwrap(vm.job))),
                            !.cancel_pending = TRUE],
          ret |-> TRUE]
    ELSE [vm |-> vm, ret |-> FALSE]

\* A faulty early stop: it also marks the capture as cancelled.
request_early_stop_cancels(vm) ==
    IF IsSome(vm.job)
    THEN [vm |-> [vm EXCEPT !.job = Some(request_stop(Unwrap(vm.job))),
                            !.cancel_pending = TRUE],
          ret |-> TRUE]
    ELSE [vm |-> vm, ret |-> FALSE]

request_early_stop(vm) ==
    IF IsSome(vm.job)
    THEN [vm |-> [vm EXCEPT !.job = Some(request_stop(Unwrap(vm.job)))],
          ret |-> TRUE]
    ELSE [vm |-> vm, ret |-> FALSE]

using_native_pipeline(has_transcriber, has_recorder) ==
    has_transcriber /\ has_recorder

\* voice::start_voice_job: a fresh worker, channel and stop flag.
start_voice_job == [stop_flag |-> FALSE, chan |-> None, alive |-> TRUE]

NoInfo == [pipeline_label |-> "", fallback_note |-> FALSE]

\* start_capture with no job active (lines 1408-1469).
\* env.transcriber_loads and env.recorder_opens say whether stt::Transcriber::new
\* and audio::Recorder::new succeed when this call has to construct them.
\* ret is "Err", "None" or "Some"; info is the VoiceStartInfo of "Some".
start_new_capture(vm, trigger, env) ==
    \* get_transcriber
    LET t_err == ~vm.transcriber /\ vm.config.whisper_model_path /\ ~env.transcriber_loads
        has_transcriber == vm.transcriber
                           \/ (vm.config.whisper_model_path /\ env.transcriber_loads)
        vm1 == [vm EXCEPT !.transcriber = has_transcriber]
    IN
    IF t_err THEN [vm |-> vm, ret |-> "Err", info |-> NoInfo]
    ELSE IF ~has_transcriber /\ vm.config.no_python_fallback
         THEN [vm |-> vm1, ret |-> "Err", info |-> NoInfo]
    ELSE
    \* get_recorder, only with a transcriber
    LET has_recorder == has_transcriber /\ (vm1.recorder \/ env.recorder_opens)
        r_err == has_transcriber /\ ~has_recorder
        vm2 == [vm1 EXCEPT !.recorder = @ \/ has_recorder]
    IN
    IF r_err /\ vm.config.no_python_fallback
    THEN [vm |-> vm2, ret |-> "Err", info |-> NoInfo]
    ELSE
    LET using_native == using_native_pipeline(has_transcriber, has_recorder) IN
    [vm |-> [vm2 EXCEPT !.job = Some(start_voice_job),
                        !.cancel_pending = FALSE,
                        !.active_source =
                            Some(IF using_native THEN "Native" ELSE "Python")],
     ret |-> "Some",
     info |-> [pipeline_label |-> IF using_native THEN "Rust pipeline"
                                  ELSE "Python pipeline",
               fallback_note |-> r_err]]

\* A faulty start_capture: it does not look for an active job.
start_capture_unguarded(vm, trigger, env) == start_new_capture(vm, trigger, env)

start_capture(vm, trigger, env) ==
    IF IsSome(vm.job) THEN [vm |-> vm, ret |-> "None", info |-> NoInfo]
    ELSE start_new_capture(vm, trigger, env)

\* VoiceJobMessage: Transcript{text, source, metrics}, Empty{source, metrics},
\* Error(message).  frames_dropped is 0 when there are no metrics.
TranscriptMsg(text, source, frames_dropped) ==
    [type |-> "Transcript", text |-> text, source |-> source,
     frames_dropped |-> frames_dropped, error |-> ""]
EmptyMsg(source, frames_dropped) ==
    [type |-> "Empty", text |-> <<>>, source |-> source,
     frames_dropped |-> frames_dropped, error |-> ""]
ErrorMsg(message) ==
    [type |-> "Error", text |-> <<>>, source |-> "", frames_dropped |-> 0,
     error |-> message]

\* A faulty poll: the message of a cancelled capture is returned.
poll_message_of_cancelled(vm) ==
    IF vm.job = None THEN [vm |-> vm, ret |-> None]
    ELSE IF IsSome(Unwrap(vm.job).chan)
    THEN [vm |-> [vm EXCEPT !.job = None, !.active_source = None,
                            !.cancel_pending = FALSE],
          ret |-> Unwrap(vm.job).chan]
    ELSE IF Unwrap(vm.job).alive THEN [vm |-> vm, ret |-> None]
    ELSE [vm |-> [vm EXCEPT !.job = None, !.active_source = None,
                            !.cancel_pending = FALSE],
          ret |-> IF vm.cancel_pending THEN None
                  ELSE Some(ErrorMsg("voice capture worker disconnected unexpectedly"))]

\* A faulty poll: a worker that went without a message is dropped silently.
poll_message_silent_disconnect(vm) ==
    IF vm.job = None THEN [vm |-> vm, ret |-> None]
    ELSE IF IsSome(Unwrap(vm.job).chan)
    THEN [vm |-> [vm EXCEPT !.job = None, !.active_source = None,
                            !.cancel_pending = FALSE],
          ret |-> IF vm.cancel_pending THEN None ELSE Unwrap(vm.job).chan]
    ELSE IF Unwrap(vm.job).alive THEN [vm |-> vm, ret |-> None]
    ELSE [vm |-> [vm EXCEPT !.job = None, !.active_source = None,
                            !.cancel_pending = FALSE],
          ret |-> None]

\* A faulty poll: the cancel mark outlives the job whose message it discards.
poll_message_keeps_cancel(vm) ==
    IF vm.job = None THEN [vm |-> vm, ret |-> None]
    ELSE IF IsSome(Unwrap(vm.job).chan)
    THEN [vm |-> [vm EXCEPT !.job = None, !.active_source = None],
          ret |-> IF vm.cancel_pending THEN None ELSE Unwrap(vm.job).chan]
    ELSE IF Unwrap(vm.job).alive THEN [vm |-> vm, ret |-> None]
    ELSE [vm |-> [vm EXCEPT !.job = None, !.active_source = None,
                            !.cancel_pending = FALSE],
          ret |-> IF vm.cancel_pending THEN None
                  ELSE Some(ErrorMsg("voice capture worker disconnected unexpectedly"))]

poll_message(vm) ==
    IF vm.job = None THEN [vm |-> vm, ret |-> None]
    ELSE LET job == Unwrap(vm.job) IN
         IF IsSome(job.chan)
         THEN [vm |-> [vm EXCEPT !.job = None, !.active_source = None,
                                 !.cancel_pending = FALSE],
               ret |-> IF vm.cancel_pending THEN None ELSE job.chan]
         ELSE IF job.alive THEN [vm |-> vm, ret |-> None]
         ELSE [vm |-> [vm EXCEPT !.job = None, !.active_source = None,
                                 !.cancel_pending = FALSE],
               ret |-> IF vm.cancel_pending THEN None
                       ELSE Some(ErrorMsg("voice capture worker disconnected unexpectedly"))]

----------------------------------------------------------------------------
(* Coordinator helpers *)

\* A faulty should_auto_trigger: a tracker that has never seen output fires
\* after every idle window, whether or not it has fired before.
should_auto_trigger_unseen_refires(t, now, idle_timeout, last_trigger_at) ==
    IF ~t.has_seen_output
    THEN idle_ready(t, now, idle_timeout)
    ELSE IF IsSome(t.last_prompt_seen_at)
            /\ (last_trigger_at = None
                \/ Unwrap(t.last_prompt_seen_at) > Unwrap(last_trigger_at))
         THEN TRUE
    ELSE IF idle_ready(t, now, idle_timeout)
            /\ (last_trigger_at = None
                \/ t.last_output_at > Unwrap(last_trigger_at))
         THEN TRUE
    ELSE FALSE

\* A faulty should_auto_trigger: new output fires at once, with no idle window.
should_auto_trigger_without_idle_window(t, now, idle_timeout, last_trigger_at) ==
    IF ~t.has_seen_output
    THEN last_trigger_at = None /\ idle_ready(t, now, idle_timeout)
    ELSE IF IsSome(t.last_prompt_seen_at)
            /\ (last_trigger_at = None
                \/ Unwrap(t.last_prompt_seen_at) > Unwrap(last_trigger_at))
         THEN TRUE
    ELSE IF last_trigger_at = None \/ t.last_output_at > Unwrap(last_trigger_at)
         THEN TRUE
    ELSE FALSE

\* A faulty should_auto_trigger: a prompt or output at the very instant of the
\* last trigger counts as new.
should_auto_trigger_fires_on_equal(t, now, idle_timeout, last_trigger_at) ==
    IF ~t.has_seen_output
    THEN last_trigger_at = None /\ idle_ready(t, now, idle_timeout)
    ELSE IF IsSome(t.last_prompt_seen_at)
            /\ (last_trigger_at = None
                \/ Unwrap(t.last_prompt_seen_at) >= Unwrap(last_trigger_at))
         THEN TRUE
    ELSE IF idle_ready(t, now, idle_timeout)
            /\ (last_trigger_at = None
                \/ t.last_output_at >= Unwrap(last_trigger_at))
         THEN TRUE
    ELSE FALSE

should_auto_trigger(t, now, idle_timeout, last_trigger_at) ==
    IF ~t.has_seen_output
    THEN last_trigger_at = None /\ idle_ready(t, now, idle_timeout)
    ELSE IF IsSome(t.last_prompt_seen_at)
            /\ (last_trigger_at = None
                \/ Unwrap(t.last_prompt_seen_at) > Unwrap(last_trigger_at))
         THEN TRUE
    ELSE IF idle_ready(t, now, idle_timeout)
            /\ (last_trigger_at = None
                \/ t.last_output_at > Unwrap(last_trigger_at))
         THEN TRUE
    ELSE FALSE

start_voice_capture(s, trigger, env) ==
    LET r == start_capture(s.voice_manager, trigger, env)
        s1 == [s EXCEPT !.voice_manager = r.vm]
    IN  IF r.ret = "Err" THEN [s |-> s1, ok |-> FALSE]
        ELSE IF r.ret = "Some"
        THEN LET status == StatusText(IF trigger = "Manual"
                                      THEN "Listening Manual Mode"
                                      ELSE "Listening Auto Mode",
                                      r.info.pipeline_label,
                                      IF r.info.fallback_note THEN 1 ELSE 0, 0)
             IN  [s |-> set_status(s1, status, None), ok |-> TRUE]
        ELSE IF trigger = "Manual"
             THEN [s |-> set_status(s1, Plain("Voice capture already running"),
                                    Some(ClearAfterShort)),
                   ok |-> TRUE]
             ELSE [s |-> s1, ok |-> TRUE]

handle_voice_message(s, message, mode, auto_enabled, pty_ok) ==
    IF message.type = "Transcript"
    THEN LET s1 == set_status(s, StatusText("Transcript ready",
                                            source_label(message.source),
                                            message.frames_dropped, 0),
                              Some(ClearAfterShort))
             r == send_transcript(message.text, mode, pty_ok)
         IN  IF r.ok THEN [s1 EXCEPT !.pty_out = @ \o r.written]
             ELSE set_status([s1 EXCEPT !.pty_out = @ \o r.written],
                             Plain("Failed to send transcript (see log)"),
                             Some(ClearAfterShort))
    ELSE IF message.type = "Empty"
    THEN IF auto_enabled
         THEN set_status(s, StatusText("Auto-voice enabled", "",
                                       message.frames_dropped, 0), None)
         ELSE set_status(s, StatusText("No speech detected",
                                       source_label(message.source),
                                       message.frames_dropped, 0),
                         Some(ClearAfterShort))
    ELSE set_status(s, Plain("Voice capture error (see log)"),
                    Some(ClearAfterShort))

\* The coordinator's mutable state at the start of a handler that begins at
\* clock and whose sends find room at once: t is the instant Instant::now()
\* returns, waits the time each of the sends to come waits for room.
Ctx ==
    [t |-> clock,
     waits |-> <<>>,
     last_enter_at |-> last_enter_at,
     last_auto_trigger_at |-> last_auto_trigger_at,
     pending_transcripts |-> pending_transcripts,
     status_clear_deadline |-> status_clear_deadline,
     current_status |-> current_status,
     prompt_tracker |-> prompt_tracker,
     voice_manager |-> voice_manager,
     pty_out |-> <<>>,
     writer_out |-> <<>>]

\* The handler that begins at now, with the waits of its sends.
Began(now, waits) == [Ctx EXCEPT !.t = now, !.waits = waits]

\* The handler has ended at s.t, where the next select begins; the waits drawn
\* for it are those of sends it made.
Ended(s) ==
    /\ s.waits = <<>>
    /\ s.t <= scope.horizon
    /\ clock' = s.t

\* The locals of main a handler leaves.
CommitLocals(s) ==
    /\ last_enter_at' = s.last_enter_at
    /\ last_auto_trigger_at' = s.last_auto_trigger_at
    /\ pending_transcripts' = s.pending_transcripts
    /\ status_clear_deadline' = IF scope.status THEN s.status_clear_deadline ELSE None
    /\ current_status' = IF scope.status THEN s.current_status ELSE None
    /\ prompt_tracker' = s.prompt_tracker
    /\ voice_manager' = s.voice_manager
    /\ pty_out' = s.pty_out
    /\ writer_out' = IF scope.status THEN s.writer_out ELSE <<>>
    /\ parser' = parser
    /\ scope' = scope

\* A handler that does not read the SIGWINCH flag.
CommitMain(s) ==
    /\ CommitLocals(s)
    /\ sigwinch_received' = sigwinch_received

\* The state a handler leaves when the writer thread does not run.
Commit(s) ==
    /\ CommitMain(s)
    /\ writer' = writer

----------------------------------------------------------------------------
(* Inputs of the model *)

Modes == {"Auto", "Insert"}
Sources == {"Native", "Python"}
VoiceConfigs ==
    { [whisper_model_path |-> m, no_python_fallback |-> n] :
        m \in BOOLEAN, n \in BOOLEAN }
StartEnvs ==
    { [transcriber_loads |-> TRUE, recorder_opens |-> TRUE],
      [transcriber_loads |-> TRUE, recorder_opens |-> FALSE],
      [transcriber_loads |-> FALSE, recorder_opens |-> FALSE] }

\* The messages a worker may send in this run.
WorkerMessages ==
    { TranscriptMsg(t, src, fd) :
        t \in scope.texts, src \in scope.sources, fd \in scope.frames }
    \cup { EmptyMsg(src, fd) : src \in scope.sources, fd \in scope.frames }
    \cup { ErrorMsg("voice capture failed") }

StepRec(kind, detail) == [kind |-> kind, detail |-> detail]

----------------------------------------------------------------------------
(* InputParser (lines 695-829) *)

\* u8::is_ascii_digit: the digits of the model's alphabet.
AsciiDigits == {"0", "4", "8"}

\* Line 765.
MAX_CSI_LEN == 32

\* The events of a read are collected in out.
InputParser_new ==
    [pending |-> <<>>, skip_lf |-> FALSE, esc_buffer |-> None, out |-> <<>>]

\* A faulty test: semicolons are not accepted among the parameters.
is_csi_u_digits_only(buffer) ==
    IF Len(buffer) < 3 THEN FALSE
    ELSE IF buffer[1] # ESC \/ buffer[2] # "[" \/ buffer[Len(buffer)] # "u" THEN FALSE
    ELSE \A i \in 3..(Len(buffer) - 1) : buffer[i] \in AsciiDigits

\* A faulty test: every sequence that ends in 'u' counts as numeric.
is_csi_u_any_parameters(buffer) ==
    IF Len(buffer) < 3 THEN FALSE
    ELSE buffer[1] = ESC /\ buffer[2] = "[" /\ buffer[Len(buffer)] = "u"

is_csi_u_numeric(buffer) ==
    IF Len(buffer) < 3 THEN FALSE
    ELSE IF buffer[1] # ESC \/ buffer[2] # "[" \/ buffer[Len(buffer)] # "u" THEN FALSE
    ELSE \A i \in 3..(Len(buffer) - 1) :
            buffer[i] \in AsciiDigits \/ buffer[i] = ";"

\* The result tells whether the byte was consumed, with the parser it leaves.
\* A faulty consume_escape: a control byte of the overlay ends the escape
\* sequence in progress, which goes to the pending bytes, and is not consumed.
consume_escape_yields_to_controls(p, byte) ==
    IF p.esc_buffer # None
    THEN LET buffer == Append(p.esc_buffer[1], byte)
             literal == [p EXCEPT !.pending = @ \o buffer, !.esc_buffer = None]
             dropped == [p EXCEPT !.esc_buffer = None]
             kept == [p EXCEPT !.esc_buffer = Some(buffer)]
         IN  IF byte \in {DC1, DC2, SYN, DC4, GS, FS, US, CR}
             THEN [consumed |-> FALSE,
                   p |-> [p EXCEPT !.pending = @ \o p.esc_buffer[1],
                                   !.esc_buffer = None]]
             ELSE [consumed |-> TRUE,
                   p |-> IF Len(buffer) = 2 /\ buffer[2] # "[" THEN literal
                         ELSE IF Len(buffer) >= 2 /\ buffer[2] = "["
                         THEN IF Len(buffer) >= 3 /\ is_csi_final(byte)
                              THEN IF is_csi_u_numeric(buffer) THEN dropped
                                   ELSE literal
                              ELSE IF Len(buffer) > MAX_CSI_LEN THEN literal
                                   ELSE kept
                         ELSE IF Len(buffer) > MAX_CSI_LEN THEN literal ELSE kept]
    ELSE IF byte = ESC
    THEN [consumed |-> TRUE, p |-> [p EXCEPT !.esc_buffer = Some(<<byte>>)]]
    ELSE [consumed |-> FALSE, p |-> p]

consume_escape(p, byte) ==
    IF p.esc_buffer # None
    THEN LET buffer == Append(p.esc_buffer[1], byte)
             literal == [p EXCEPT !.pending = @ \o buffer, !.esc_buffer = None]
             dropped == [p EXCEPT !.esc_buffer = None]
             kept == [p EXCEPT !.esc_buffer = Some(buffer)]
         IN  [consumed |-> TRUE,
              p |-> IF Len(buffer) = 2 /\ buffer[2] # "[" THEN literal
                    ELSE IF Len(buffer) >= 2 /\ buffer[2] = "["
                    THEN IF Len(buffer) >= 3 /\ is_csi_final(byte)
                         THEN IF is_csi_u_numeric(buffer) THEN dropped ELSE literal
                         ELSE IF Len(buffer) > MAX_CSI_LEN THEN literal ELSE kept
                    ELSE IF Len(buffer) > MAX_CSI_LEN THEN literal ELSE kept]
    ELSE IF byte = ESC
    THEN [consumed |-> TRUE, p |-> [p EXCEPT !.esc_buffer = Some(<<byte>>)]]
    ELSE [consumed |-> FALSE, p |-> p]

flush_pending(p) ==
    LET pending == IF p.esc_buffer # None THEN p.pending \o p.esc_buffer[1]
                   ELSE p.pending
    IN  [p EXCEPT !.esc_buffer = None,
                  !.pending = <<>>,
                  !.out = IF pending # <<>> THEN Append(@, <<"Bytes", pending>>)
                          ELSE @]

\* Lines 725-759: the event of a control byte, None for any other byte.
control_event(byte) ==
    IF byte = DC1 THEN Some(<<"Exit">>)
    ELSE IF byte = DC2 THEN Some(<<"VoiceTrigger">>)
    ELSE IF byte = SYN THEN Some(<<"ToggleAutoVoice">>)
    ELSE IF byte = DC4 THEN Some(<<"ToggleSendMode">>)
    ELSE IF byte = GS THEN Some(<<"IncreaseSensitivity">>)
    ELSE IF byte = FS THEN Some(<<"DecreaseSensitivity">>)
    ELSE IF byte = US THEN Some(<<"DecreaseSensitivity">>)
    ELSE IF byte = CR \/ byte = LF THEN Some(<<"EnterKey">>)
    ELSE None

\* A faulty decoder: a line feed is a key of its own also after a carriage
\* return.
consume_byte_lf_always_enter(p, byte) ==
    LET e == consume_escape(p, byte)
        q == [p EXCEPT !.skip_lf = FALSE]
    IN  IF e.consumed THEN e.p
        ELSE IF control_event(byte) # None
        THEN [flush_pending(q) EXCEPT !.out = Append(@, control_event(byte)[1]),
                                      !.skip_lf = (byte = CR)]
        ELSE [q EXCEPT !.pending = Append(@, byte)]

\* Lines 712-760: the body of the loop of consume_bytes for one byte.
consume_byte(p, byte) ==
    LET e == consume_escape(p, byte)
        q == [p EXCEPT !.skip_lf = FALSE]
    IN  IF e.consumed THEN e.p
        ELSE IF p.skip_lf /\ byte = LF THEN q
        ELSE IF control_event(byte) # None
        THEN [flush_pending(q) EXCEPT !.out = Append(@, control_event(byte)[1]),
                                      !.skip_lf = (byte = CR)]
        ELSE [q EXCEPT !.pending = Append(@, byte)]

RECURSIVE consume_bytes(_, _)
consume_bytes(p, bytes) ==
    IF bytes = <<>> THEN p
    ELSE consume_bytes(consume_byte(p, Head(bytes)), Tail(bytes))

----------------------------------------------------------------------------
(* The writer thread (lines 859-1047).  Its instants and durations are in  *)
(* the units of the clock, 25 ms.                                          *)

\* Line 872: recv_timeout(Duration::from_millis(25)).
RecvTimeout == 1
\* Line 968: 50 ms.
STATUS_IDLE_MS == 2
\* Line 969: 500 ms, scaled down.
STATUS_MAX_WAIT_MS == 6
\* Line 24: 512 messages, scaled down.
WRITER_CHANNEL_CAPACITY == 2

sanitize_status(text) ==
    [i \in 1..Len(text) |->
        IF text[i] \in Graphic \/ text[i] = SP THEN text[i] ELSE SP]

truncate_status(text, max) ==
    IF max = 0 THEN <<>>
    ELSE SubSeq(text, 1, IF Len(text) < max THEN Len(text) ELSE max)

\* The bytes written to stdout, as one write: save cursor, go to the row,
\* erase the line, the text, restore cursor.
write_status_line(text, rows, cols) ==
    IF rows = 0 \/ cols = 0 THEN <<>>
    ELSE << <<"status", rows, truncate_status(sanitize_status(text), cols)>> >>

clear_status_line(rows, cols) ==
    IF rows = 0 \/ cols = 0 THEN <<>>
    ELSE << <<"clear", rows>> >>

\* The locals of the thread at its spawn, with the channel it receives from
\* and the message recv_timeout has returned and whose arm has not run yet
\* (with the instant of the return).
WriterThread_new(now) ==
    [chan |-> <<>>,
     taken |-> None,
     alive |-> TRUE,
     status |-> None,
     pending_status |-> None,
     pending_clear |-> FALSE,
     needs_redraw |-> FALSE,
     rows |-> 0,
     cols |-> 0,
     last_output_at |-> now,
     last_status_draw_at |-> now,
     stdout |-> <<>>]

\* Lines 980-999: the redraw itself.  size is the result of
\* terminal_size(): None for Err; done is the instant read at line 998,
\* after the writes of lines 987 and 995 have returned.
redraw_status(w, done, size) ==
    LET w1 == IF (w.rows = 0 \/ w.cols = 0) /\ size # None
              THEN [w EXCEPT !.rows = size[1].rows, !.cols = size[1].cols]
              ELSE w
        w2 == IF w1.pending_clear
              THEN [w1 EXCEPT !.stdout = @ \o clear_status_line(w1.rows, w1.cols),
                              !.status = None,
                              !.pending_clear = FALSE]
              ELSE w1
        w3 == IF w2.pending_status # None
              THEN [w2 EXCEPT !.status = w2.pending_status,
                              !.pending_status = None]
              ELSE w2
        w4 == IF w3.status # None
              THEN [w3 EXCEPT !.stdout =
                       @ \o write_status_line(w3.status[1], w3.rows, w3.cols)]
              ELSE w3
    IN  [w4 EXCEPT !.needs_redraw = FALSE, !.last_status_draw_at = done]

\* A faulty deferral: the status is drawn at once, whatever the output did.
maybe_redraw_status_at_once(w, now, done, size) ==
    IF ~w.needs_redraw THEN w
    ELSE redraw_status(w, done, size)

\* Lines 967-1000: now is the instant of the two elapsed() of lines 973-974.
maybe_redraw_status(w, now, done, size) ==
    IF ~w.needs_redraw THEN w
    ELSE IF now - w.last_output_at < STATUS_IDLE_MS
            /\ now - w.last_status_draw_at < STATUS_MAX_WAIT_MS
    THEN w
    ELSE redraw_status(w, done, size)

\* Lines 873-933: one turn of the loop in which recv_timeout returned
\* Ok(msg) at now.  out_ok tells whether the write of PTY output succeeds;
\* done is the instant at which the writes of the arm have returned, which
\* is later than now when stdout made write_all wait (line 877 reads it after
\* line 874).
writer_message(w, msg, now, done, size, out_ok) ==
    IF msg[1] = "PtyOutput"
    THEN IF ~out_ok THEN [w EXCEPT !.alive = FALSE]
         ELSE [w EXCEPT !.stdout = Append(@, <<"out", msg[2]>>),
                        !.last_output_at = done,
                        !.needs_redraw = IF w.status # None THEN TRUE ELSE @]
    ELSE IF msg[1] = "Status"
    THEN maybe_redraw_status(
             [w EXCEPT !.pending_status = Some(msg[2]),
                       !.pending_clear = FALSE,
                       !.needs_redraw = TRUE], now, done, size)
    ELSE IF msg[1] = "ClearStatus"
    THEN maybe_redraw_status(
             [w EXCEPT !.pending_status = None,
                       !.pending_clear = TRUE,
                       !.needs_redraw = TRUE], now, done, size)
    ELSE IF msg[1] = "Resize"
    THEN maybe_redraw_status(
             [w EXCEPT !.rows = msg[2],
                       !.cols = msg[3],
                       !.needs_redraw =
                           IF w.status # None \/ w.pending_status # None
                           THEN TRUE ELSE @], now, done, size)
    ELSE [w EXCEPT !.alive = FALSE]

----------------------------------------------------------------------------
(* main: construction and the code before the loop (lines 139-194) *)

\* main before the loop, for the inputs sc, prompt regexes and voice configs.
MainInit(sc, regexes, configs) ==
    /\ scope = sc
    /\ clock = 0
    /\ voice_send_mode \in Modes
    /\ auto_voice_enabled \in BOOLEAN
    /\ last_auto_trigger_at = None
    /\ last_enter_at = None
    /\ pending_transcripts = <<>>
    /\ status_clear_deadline = None
    /\ current_status = None
    /\ \E regex \in regexes : prompt_tracker = PromptTracker_new(regex, 0)
    /\ \E config \in configs : voice_manager = VoiceManager_new(config)
    /\ running = TRUE
    /\ writer = WriterThread_new(0)
    /\ parser = InputParser_new
    /\ sigwinch_received = FALSE
    /\ pc = "start"
    /\ pty_out = <<>>
    /\ writer_out = <<>>
    /\ step = StepRec("main", "")

\* The waits of a handler's sends: each finds room at once, or the first
\* waits one unit for the writer to take a message.
SendWaits == { <<>>, <<1>> }

\* The inputs of Spec: a text to trim and a blank one, and a completed prompt
\* line followed by the start of a line that is no prompt; the status line is
\* not observed.  Handlers begin up to MaxBeginTime, which leaves the horizon
\* room for the wait of a send; the sensitivity keys are pressed from
\* MaxLoopTime on.
CoreScope ==
    [status |-> FALSE,
     horizon |-> MaxLoopTime,
     texts |-> { <<SP, "h", SP>>, <<SP>> },
     sources |-> {"Native"},
     frames |-> {0},
     chunks |-> { <<CR, ">", LF, "x">> },
     waits |-> SendWaits,
     last |-> MaxBeginTime,
     keys_from |-> MaxLoopTime]

Init ==
    MainInit(CoreScope, {Some(<<">">>)},
             {[whisper_model_path |-> TRUE, no_python_fallback |-> FALSE,
               voice_vad_threshold_db |-> F32(MAX_DB)]})

\* The results of terminal_size(): Err, or Ok((cols, rows)).
TerminalSizes == { None, Some([rows |-> 2, cols |-> 3]) }

\* Lines 157 and 374: the Resize of the present terminal size, if it can be
\* read.
forward_resize(s, size) ==
    IF IsSome(size)
    THEN writer_send(s, <<"Resize", Unwrap(size).rows, Unwrap(size).cols>>)
    ELSE s

\* Lines 155-194: the terminal size is passed on, then auto-voice starts its
\* first capture.  The channel is new and holds fewer messages than it has
\* room for: no send of these lines waits.
Startup ==
    /\ pc = "start"
    /\ \E env \in StartEnvs, size \in TerminalSizes :
         LET s0 == forward_resize(Ctx, size)
             s1 == IF auto_voice_enabled
                   THEN set_status(s0, Plain("Auto-voice enabled"), None)
                   ELSE s0
             r == start_voice_capture(s1, "Auto", env)
             s2 == IF auto_voice_enabled /\ is_idle(s1.voice_manager)
                   THEN IF r.ok THEN [r.s EXCEPT !.last_auto_trigger_at = Some(r.s.t)]
                        ELSE r.s
                   ELSE s1
         IN  Commit(s2)
    /\ pc' = "loop"
    /\ step' = step
    /\ UNCHANGED <<clock, voice_send_mode, auto_voice_enabled, running>>

----------------------------------------------------------------------------
(* main: the input branch of the select (lines 199-340)                    *)
(* An instant is counted in whole units, so an interval that begins within *)
(* a unit spans its length in units or one unit more.                      *)

InLoop == pc = "loop" /\ running

\* The last instant at which a handler of this run begins: the horizon, or
\* the earlier instant a scope names to leave room for the wait of a send.
LastBegin == IF "last" \in DOMAIN scope THEN scope.last ELSE scope.horizon

\* The instants at which an event can be received by the select that began
\* at clock, when the last handler ended: less than one timeout later.
SelectWindow == { now \in clock..(clock + TickLen) : now <= LastBegin }

\* The instants at which the default arm of the select that began at clock
\* begins: one timeout later.
TimeoutWindow ==
    { now \in (clock + TickLen)..(clock + TickLen + 1) : now <= LastBegin }

\* PtyOverlaySession::send_bytes
send_bytes(bytes) == bytes

InputBytes ==
    /\ InLoop
    /\ \E now \in SelectWindow, bytes \in { <<"x">> }, pty_ok \in BOOLEAN :
         /\ clock' = now
         /\ IF pty_ok
            THEN Commit([Ctx EXCEPT !.pty_out = <<send_bytes(bytes)>>]) /\ running' = TRUE
            ELSE Commit([Ctx EXCEPT !.pty_out = <<WriteFailed>>]) /\ running' = FALSE
         /\ step' = step
    /\ UNCHANGED <<voice_send_mode, auto_voice_enabled, pc>>

\* Lines 207-224.
voice_trigger(s, env) ==
    LET r == start_voice_capture(s, "Manual", env)
    IN  IF r.ok THEN r.s
        ELSE set_status(r.s, Plain("Voice capture failed (see log)"),
                        Some(ClearAfterShort))

VoiceTrigger ==
    /\ InLoop
    /\ \E now \in SelectWindow, waits \in scope.waits, env \in StartEnvs :
         LET s == voice_trigger(Began(now, waits), env)
         IN  /\ Ended(s)
             /\ Commit(s)
             /\ step' = step
    /\ UNCHANGED <<voice_send_mode, auto_voice_enabled, running, pc>>

\* Lines 225-261: the flag is flipped, the status says so, and enabling starts
\* a capture when none is active; last_auto_trigger_at is taken from the clock
\* after start_voice_capture has returned (line 258).
toggle_auto_voice(s, enabled, env) ==
    LET c == cancel_capture(s.voice_manager)
        s1 == IF enabled THEN s ELSE [s EXCEPT !.voice_manager = c.vm]
        msg == IF enabled THEN Plain("Auto-voice enabled")
               ELSE IF c.ret THEN Plain("Auto-voice disabled (capture cancelled)")
               ELSE Plain("Auto-voice disabled")
        s2 == set_status(s1, msg, IF enabled THEN None ELSE Some(ClearAfterShort))
        r == start_voice_capture(s2, "Auto", env)
    IN  IF enabled /\ is_idle(s2.voice_manager)
        THEN IF r.ok THEN [r.s EXCEPT !.last_auto_trigger_at = Some(r.s.t)]
             ELSE r.s
        ELSE s2

ToggleAutoVoice ==
    /\ InLoop
    /\ \E now \in SelectWindow, waits \in scope.waits, env \in StartEnvs :
         LET s == toggle_auto_voice(Began(now, waits), ~auto_voice_enabled, env)
         IN  /\ auto_voice_enabled' = ~auto_voice_enabled
             /\ Ended(s)
             /\ Commit(s)
             /\ step' = step
    /\ UNCHANGED <<voice_send_mode, running, pc>>

ToggleSendMode ==
    /\ InLoop
    /\ \E now \in SelectWindow, waits \in scope.waits :
         LET mode == IF voice_send_mode = "Auto" THEN "Insert" ELSE "Auto"
             msg == IF mode = "Auto" THEN Plain("Send mode: auto (sends Enter)")
                    ELSE Plain("Send mode: insert (press Enter to send)")
             s == set_status(Began(now, waits), msg, Some(ClearAfterLong))
         IN  /\ voice_send_mode' = mode
             /\ Ended(s)
             /\ Commit(s)
             /\ step' = step
    /\ UNCHANGED <<auto_voice_enabled, running, pc>>

\* The status of lines 281-285 and 292-296: the threshold, printed with no
\* decimals, and the direction of the change.
SensitivityText(threshold_db, direction) ==
    <<"Mic sensitivity", direction, threshold_db, 0>>

\* Lines 279-300: the threshold moves by delta_db and the status shows it.
sensitivity_key(s, delta_db, direction) ==
    LET r == adjust_sensitivity(s.voice_manager, delta_db)
    IN  set_status([s EXCEPT !.voice_manager = r.vm],
                   SensitivityText(r.ret, direction), Some(ClearAfterLong))

\* The first instant at which a sensitivity key is pressed in the run: any,
\* unless the scope names one.
FirstKey == IF "keys_from" \in DOMAIN scope THEN scope.keys_from ELSE 0

\* The instants at which a sensitivity key can be received by the select
\* that began at clock.
KeyWindow ==
    { now \in clock..(clock + TickLen) : FirstKey <= now /\ now <= scope.horizon }

\* Lines 279-289.
IncreaseSensitivity ==
    /\ InLoop
    /\ \E now \in KeyWindow, waits \in scope.waits :
         LET s == sensitivity_key(Began(now, waits), F32(5), "less sensitive")
         IN  /\ Ended(s)
             /\ Commit(s)
             /\ step' = step
    /\ UNCHANGED <<voice_send_mode, auto_voice_enabled, running, pc>>

\* Lines 290-300.  The key is pressed while the threshold is fewer than
\* MaxKeySteps steps below the upper end of its range.
DecreaseSensitivity ==
    /\ InLoop
    /\ voice_manager.config.voice_vad_threshold_db.v > MAX_DB - 5 * MaxKeySteps
    /\ \E now \in KeyWindow, waits \in scope.waits :
         LET s == sensitivity_key(Began(now, waits), F32(-5), "more sensitive")
         IN  /\ Ended(s)
             /\ Commit(s)
             /\ step' = step
    /\ UNCHANGED <<voice_send_mode, auto_voice_enabled, running, pc>>

\* Lines 324-330: Enter is forwarded to the PTY; a failed write ends the loop.
forward_enter(s, pty_ok) ==
    IF pty_ok
    THEN [s |-> [s EXCEPT !.pty_out = <<send_bytes(<<CR>>)>>,
                          !.last_enter_at = Some(s.t)],
          running |-> TRUE]
    ELSE [s |-> [s EXCEPT !.pty_out = <<WriteFailed>>], running |-> FALSE]

\* A faulty Enter handler: Enter is forwarded even while a capture is active
\* in insert mode.
enter_key_always_forwarded(s, pty_ok) == forward_enter(s, pty_ok)

\* Lines 301-332: the handler of InputEvent::EnterKey; what it leaves, and
\* whether the loop goes on.
enter_key(s, pty_ok) ==
    IF voice_send_mode = "Insert" /\ ~is_idle(s.voice_manager)
    THEN IF active_source(s.voice_manager) = Some("Python")
         THEN [s |-> set_status(
                         [s EXCEPT !.voice_manager = cancel_capture(@).vm],
                         Plain("Capture cancelled (python fallback cannot stop early)"),
                         Some(ClearAfterLong)),
               running |-> TRUE]
         ELSE [s |-> set_status(
                         [s EXCEPT !.voice_manager = request_early_stop(@).vm],
                         Plain("Processing..."), None),
               running |-> TRUE]
    ELSE forward_enter(s, pty_ok)

EnterKey ==
    /\ InLoop
    /\ UNCHANGED <<voice_send_mode, auto_voice_enabled, pc, step>>
    /\ \E now \in SelectWindow, waits \in scope.waits, pty_ok \in BOOLEAN :
         LET r == enter_key(Began(now, waits), pty_ok)
         IN  /\ Ended(r.s)
             /\ Commit(r.s)
             /\ running' = r.running

Exit ==
    /\ InLoop
    /\ Commit(Ctx)
    /\ running' = FALSE
    /\ step' = step
    /\ UNCHANGED <<clock, voice_send_mode, auto_voice_enabled, pc>>

\* recv(input_rx) returns Err: the input thread has ended.
InputClosed ==
    /\ InLoop
    /\ Commit(Ctx)
    /\ running' = FALSE
    /\ step' = step
    /\ UNCHANGED <<clock, voice_send_mode, auto_voice_enabled, pc>>

----------------------------------------------------------------------------
(* main: the PTY-output branch (lines 341-369) *)

\* Lines 343-364: the handler of a chunk of PTY output; what it leaves, and
\* whether the loop goes on.  The tracker and the flush read the clock as the
\* handler begins; the chunk is passed on last, unless the writer's end of
\* the channel is gone, which ends the loop.
pty_output(s, data, pty_ok, writer_ok) ==
    LET s1 == [s EXCEPT !.prompt_tracker = feed_output(@, data, s.t)]
        s2 == try_flush_pending(s1, s1.t, TranscriptIdleTimeout, pty_ok)
    IN  IF writer_ok
        THEN [s |-> writer_send(s2, <<"PtyOutput", data>>), running |-> TRUE]
        ELSE [s |-> s2, running |-> FALSE]

PtyOutput ==
    /\ InLoop
    /\ \E now \in SelectWindow, waits \in scope.waits, data \in scope.chunks,
          pty_ok \in BOOLEAN, writer_ok \in BOOLEAN :
         LET r == pty_output(Began(now, waits), data, pty_ok, writer_ok)
         IN  /\ Ended(r.s)
             /\ Commit(r.s)
             /\ running' = r.running
             /\ step' = step
    /\ UNCHANGED <<voice_send_mode, auto_voice_enabled, pc>>

\* recv(session.output_rx) returns Err: the child has gone.
PtyClosed ==
    /\ InLoop
    /\ Commit(Ctx)
    /\ running' = FALSE
    /\ step' = step
    /\ UNCHANGED <<clock, voice_send_mode, auto_voice_enabled, pc>>

----------------------------------------------------------------------------
(* main: the default branch, taken after one select timeout (lines 370-563) *)
(* now is the local of line 378, which the whole tick uses; the status     *)
(* deadlines and the flush read the clock again.                           *)

\* A faulty direct delivery: last_enter_at is set whatever was sent.
deliver_now_marks_enter(s, message, now, pty_ok) ==
    [deliver_transcript(s, message.text, source_label(message.source),
                        voice_send_mode, 0, message.frames_dropped, pty_ok).s
        EXCEPT !.last_enter_at = Some(now)]

\* Lines 401-425: the transcript is delivered at once.
deliver_now(s, message, now, pty_ok) ==
    LET d == deliver_transcript(s, message.text, source_label(message.source),
                                voice_send_mode, 0, message.frames_dropped,
                                pty_ok)
    IN  IF d.sent_newline THEN [d.s EXCEPT !.last_enter_at = Some(now)] ELSE d.s

\* Lines 441-475: after the push, flush if ready, else report the queue.
after_push(s, dropped, ready, message, now, pty_ok) ==
    IF ready
    THEN try_flush_pending(s, now, TranscriptIdleTimeout, pty_ok)
    ELSE IF ~dropped
    THEN set_status(s, StatusText("Transcript queued", "", message.frames_dropped,
                                  Len(s.pending_transcripts)),
                    None)
    ELSE s

\* Lines 426-476: the transcript is queued.
queue_transcript(s, ready, message, now, pty_ok) ==
    LET p == push_pending_transcript(
                 s.pending_transcripts,
                 PendingTranscript(message.text, message.source, voice_send_mode))
    IN  after_push(
            IF p.dropped
            THEN set_status([s EXCEPT !.pending_transcripts = p.pending],
                            Plain("Transcript queue full (oldest dropped)"),
                            Some(ClearAfterShort))
            ELSE [s EXCEPT !.pending_transcripts = p.pending],
            p.dropped, ready, message, now, pty_ok)

\* Lines 477-488: re-arm auto-voice after a transcript in insert mode.
\* A faulty re-arm: a transcript never starts the next capture.
rearm_after_transcript_never(s, now, env) == s

rearm_after_transcript(s, now, env) ==
    IF auto_voice_enabled /\ voice_send_mode = "Insert"
       /\ s.pending_transcripts = <<>> /\ is_idle(s.voice_manager)
    THEN LET r == start_voice_capture(s, "Auto", env)
         IN  IF r.ok THEN [r.s EXCEPT !.last_auto_trigger_at = Some(now)] ELSE r.s
    ELSE s

\* A faulty dispatch: a transcript polled while the child is ready is
\* delivered at once, whatever the queue holds.
transcript_dispatch_overtakes(s, ready, message, now, pty_ok) ==
    IF ready
    THEN deliver_now(s, message, now, pty_ok)
    ELSE queue_transcript(s, ready, message, now, pty_ok)

\* Lines 395-400: readiness is taken first, then the activity is noted.
transcript_dispatch(s, ready, message, now, pty_ok) ==
    IF ready /\ s.pending_transcripts = <<>>
    THEN deliver_now(s, message, now, pty_ok)
    ELSE queue_transcript(s, ready, message, now, pty_ok)

\* Lines 387-489: a polled Transcript.
on_transcript(s, message, now, pty_ok, env) ==
    rearm_after_transcript(
        transcript_dispatch(
            IF auto_voice_enabled
            THEN [s EXCEPT !.prompt_tracker = note_activity(@, now)]
            ELSE s,
            transcript_ready(s.prompt_tracker, s.last_enter_at, now,
                             TranscriptIdleTimeout),
            message, now, pty_ok),
        now, env)

\* Lines 381-506: what the tick does with a polled message.
on_message(s, message, now, pty_ok, env) ==
    IF message.type = "Transcript"
    THEN on_transcript(s, message, now, pty_ok, env)
    ELSE IF auto_voice_enabled
    THEN [handle_voice_message(s, message, voice_send_mode, auto_voice_enabled,
                               pty_ok)
             EXCEPT !.prompt_tracker = note_activity(@, now)]
    ELSE handle_voice_message(s, message, voice_send_mode, auto_voice_enabled,
                              pty_ok)

\* Lines 525-545: auto-trigger evaluation.
\* A faulty auto-trigger evaluation: it does not ask whether auto-voice is on.
auto_trigger_when_disabled(s, now, env) ==
    LET r == start_voice_capture(s, "Auto", env) IN
    IF is_idle(s.voice_manager)
       /\ should_auto_trigger(s.prompt_tracker, now, AutoIdleTimeout,
                              s.last_auto_trigger_at)
    THEN IF r.ok THEN [r.s EXCEPT !.last_auto_trigger_at = Some(now)] ELSE r.s
    ELSE s

auto_trigger(s, now, env) ==
    LET r == start_voice_capture(s, "Auto", env) IN
    IF auto_voice_enabled /\ is_idle(s.voice_manager)
       /\ should_auto_trigger(s.prompt_tracker, now, AutoIdleTimeout,
                              s.last_auto_trigger_at)
    THEN IF r.ok THEN [r.s EXCEPT !.last_auto_trigger_at = Some(now)] ELSE r.s
    ELSE s

\* Lines 547-562: status deadline expiry.
expire_status(s, now) ==
    IF IsSome(s.status_clear_deadline) /\ now >= Unwrap(s.status_clear_deadline)
    THEN LET s1 == [writer_send(s, <<"ClearStatus">>)
                       EXCEPT !.status_clear_deadline = None,
                              !.current_status = None]
         IN  IF auto_voice_enabled /\ is_idle(s1.voice_manager)
             THEN set_status(s1, Plain("Auto-voice enabled"), None)
             ELSE s1
    ELSE s

\* Lines 508-562: pending flush, auto-trigger and status expiry.
tick_rest(s, now, pty_ok, env) ==
    expire_status(
        auto_trigger(try_flush_pending(s, now, TranscriptIdleTimeout, pty_ok),
                     now, env),
        now)

\* Lines 381-562: the polled message, if any, is handled, then the rest of
\* the tick.  The PTY takes or refuses each write by itself: pty_ok is the
\* outcome of the write of lines 381-506, flush_ok of that of lines 508-523.
tick_message(s, ret, now, pty_ok, flush_ok, env) ==
    tick_rest(IF IsSome(ret) THEN on_message(s, Unwrap(ret), now, pty_ok, env)
              ELSE s,
              now, flush_ok, env)

\* Line 381: the poll.
tick_poll(s, now, pty_ok, flush_ok, env) ==
    LET p == poll_message(s.voice_manager)
    IN  tick_message([s EXCEPT !.voice_manager = p.vm], p.ret, now, pty_ok,
                     flush_ok, env)

\* A faulty swap: the flag is read and left as it is.
AtomicBool_load_only(flag, val) == [ret |-> flag, flag |-> flag]

\* AtomicBool::swap: the old value is returned and the new one stored, in one
\* step.
AtomicBool_swap(flag, val) == [ret |-> flag, flag |-> val]

\* Line 372: terminal_size() is called only if the swap returned true.
SizesRead(signalled) == IF signalled THEN TerminalSizes ELSE {None}

\* Lines 371-376: the tick begins with the Resize, if the swap of the SIGWINCH
\* flag returned true.
tick_resize(s, signalled, size) ==
    IF signalled THEN forward_resize(s, size) ELSE s

\* Lines 378-379: now is read when the Resize has been sent, and on_idle is
\* called with it.
tick_begin(s, now) ==
    [s EXCEPT !.prompt_tracker = on_idle(@, now, AutoIdleTimeout)]

\* Lines 378-563: the default arm from the read of now on.
tick_at(s, now, pty_ok, flush_ok, env) ==
    tick_poll(tick_begin(s, now), now, pty_ok, flush_ok, env)

\* The job once its worker thread has sent its one message and ended.
worker_sent(job, message) == [job EXCEPT !.chan = Some(message), !.alive = FALSE]

\* The job once its worker thread has ended without a message.
worker_gone(job) == [job EXCEPT !.alive = FALSE]

\* What the worker thread of the active job can have done while main waited
\* in a send, from the instant since to s.t: nothing (None), or the job as the
\* thread left it.
WorkerMoves(s, since) ==
    {None} \cup
    IF s.t > since /\ IsSome(s.voice_manager.job) /\ Unwrap(s.voice_manager.job).alive
    THEN { Some(worker_sent(Unwrap(s.voice_manager.job), message)) :
             message \in WorkerMessages }
         \cup { Some(worker_gone(Unwrap(s.voice_manager.job))) }
    ELSE {}

worker_moved(s, moved) ==
    IF moved = None THEN s ELSE [s EXCEPT !.voice_manager.job = moved]

\* Lines 371-563: the default arm, for the value the swap of the SIGWINCH
\* flag returned and the terminal size read if it was set; now is the clock
\* after the Resize (line 378), and the poll of line 381 finds what the worker
\* thread did while the Resize waited in send (moved).
default_arm(s, signalled, size, moved, pty_ok, flush_ok, env) ==
    tick_at(worker_moved(tick_resize(s, signalled, size), moved),
            tick_resize(s, signalled, size).t, pty_ok, flush_ok, env)

\* A write of the step was refused: a refusal drawn is that of a write made.
Refused(s) == \E i \in DOMAIN s.pty_out : s.pty_out[i] = WriteFailed

Tick ==
    /\ InLoop
    /\ \E at \in TimeoutWindow, waits \in scope.waits, pty_ok \in BOOLEAN,
          flush_ok \in BOOLEAN, env \in StartEnvs,
          size \in SizesRead(sigwinch_received) :
         \E moved \in WorkerMoves(
                 tick_resize(Began(at, waits),
                             AtomicBool_swap(sigwinch_received, FALSE).ret, size), at) :
         LET sw == AtomicBool_swap(sigwinch_received, FALSE)
             s == default_arm(Began(at, waits), sw.ret, size, moved, pty_ok,
                              flush_ok, env)
         IN  /\ sigwinch_received' = sw.flag
             /\ Ended(s)
             /\ (pty_ok /\ flush_ok) \/ Refused(s)
             /\ CommitLocals(s)
             /\ writer' = writer
             /\ step' = step
    /\ UNCHANGED <<voice_send_mode, auto_voice_enabled, running, pc>>

----------------------------------------------------------------------------
(* The voice worker thread of the active job, and the end of main *)

WorkerSend ==
    /\ IsSome(voice_manager.job)
    /\ Unwrap(voice_manager.job).alive
    /\ \E message \in WorkerMessages :
         voice_manager' = [voice_manager EXCEPT
             !.job = Some(worker_sent(Unwrap(@), message))]
    /\ pty_out' = <<>>
    /\ writer_out' = <<>>
    /\ step' = step
    /\ UNCHANGED <<clock, voice_send_mode, auto_voice_enabled, last_auto_trigger_at,
                   last_enter_at, pending_transcripts, status_clear_deadline,
                   current_status, prompt_tracker, running, pc, writer, parser,
                   sigwinch_received, scope>>

\* The worker ends without sending a message.
WorkerDie ==
    /\ IsSome(voice_manager.job)
    /\ Unwrap(voice_manager.job).alive
    /\ voice_manager' = [voice_manager EXCEPT
           !.job = Some(worker_gone(Unwrap(@)))]
    /\ pty_out' = <<>>
    /\ writer_out' = <<>>
    /\ step' = step
    /\ UNCHANGED <<clock, voice_send_mode, auto_voice_enabled, last_auto_trigger_at,
                   last_enter_at, pending_transcripts, status_clear_deadline,
                   current_status, prompt_tracker, running, pc, writer, parser,
                   sigwinch_received, scope>>

\* Lines 567-571: the status line is cleared, then the writer is told to end.
Shutdown ==
    /\ pc = "loop"
    /\ ~running
    /\ Commit(writer_send(writer_send(Ctx, <<"ClearStatus">>), <<"Shutdown">>))
    /\ pc' = "done"
    /\ step' = step
    /\ UNCHANGED <<clock, voice_send_mode, auto_voice_enabled, running>>

Next ==
    \/ Startup
    \/ InputBytes
    \/ VoiceTrigger
    \/ ToggleAutoVoice
    \/ ToggleSendMode
    \/ IncreaseSensitivity
    \/ DecreaseSensitivity
    \/ EnterKey
    \/ Exit
    \/ InputClosed
    \/ PtyOutput
    \/ PtyClosed
    \/ Tick
    \/ WorkerSend
    \/ WorkerDie
    \/ Shutdown

Spec == Init /\ [][Next]_vars

----------------------------------------------------------------------------
(* Harnesses.  A harness calls functions of the program in any order on    *)
(* the state the earlier calls left, and records each call in step.        *)

\* The state a harness starts from: main's construction, nothing running.
HarnessInit(sc, modes, configs) ==
    /\ scope = sc
    /\ clock = 0
    /\ voice_send_mode \in modes
    /\ auto_voice_enabled = FALSE
    /\ last_auto_trigger_at = None
    /\ last_enter_at = None
    /\ pending_transcripts = <<>>
    /\ status_clear_deadline = None
    /\ current_status = None
    /\ prompt_tracker = PromptTracker_new(Some(<<">">>), 0)
    /\ \E config \in configs : voice_manager = VoiceManager_new(config)
    /\ running = TRUE
    /\ writer = WriterThread_new(0)
    /\ parser = InputParser_new
    /\ sigwinch_received = FALSE
    /\ pc = "call"
    /\ pty_out = <<>>
    /\ writer_out = <<>>
    /\ step = StepRec("new", "")

\* A harness calls the functions while the loop would be running.
InHarness == pc = "call" /\ running

----------------------------------------------------------------------------
(* SpecDeliver: transcript delivery and the flush of the pending queue     *)

MaxFlushQueue == 3

DeliverScope ==
    [status |-> FALSE,
     horizon |-> MaxTime,
     texts |-> { <<SP, "a">>, <<"b", SP>>, <<SP>> },
     sources |-> {"Native"},
     frames |-> {0},
     chunks |-> { <<CR, ">", LF, "x">> },
     waits |-> SendWaits]

DeliverConfigs == {[whisper_model_path |-> TRUE, no_python_fallback |-> FALSE]}

DeliverInit == HarnessInit(DeliverScope, Modes, DeliverConfigs)

\* Line 348: PTY output reaches the tracker.
DlvOutput ==
    /\ InHarness
    /\ \E data \in scope.chunks :
         Commit([Ctx EXCEPT !.prompt_tracker = feed_output(@, data, clock)])
    /\ step' = StepRec("feed_output", "")
    /\ UNCHANGED <<clock, voice_send_mode, auto_voice_enabled, running, pc>>

\* Lines 324-330: the user's Enter is forwarded to the PTY; a failed write
\* ends the loop.
DlvEnter ==
    /\ InHarness
    /\ \E pty_ok \in BOOLEAN :
         /\ Commit(forward_enter(Ctx, pty_ok).s)
         /\ running' = forward_enter(Ctx, pty_ok).running
    /\ step' = StepRec("enter", "")
    /\ UNCHANGED <<clock, voice_send_mode, auto_voice_enabled, pc>>

\* Lines 378-379: a select timeout has passed; the tick takes the time and
\* calls on_idle.
DlvAdvance ==
    /\ InHarness
    /\ clock < MaxTime
    /\ clock' = clock + 1
    /\ Commit([Ctx EXCEPT !.prompt_tracker = on_idle(@, clock + 1, AutoIdleTimeout)])
    /\ step' = StepRec("on_idle", "")
    /\ UNCHANGED <<voice_send_mode, auto_voice_enabled, running, pc>>

\* Line 263: the send mode is toggled.
DlvToggleMode ==
    /\ InHarness
    /\ voice_send_mode' = IF voice_send_mode = "Auto" THEN "Insert" ELSE "Auto"
    /\ Commit(Ctx)
    /\ step' = StepRec("toggle", "")
    /\ UNCHANGED <<clock, auto_voice_enabled, running, pc>>

\* Lines 427-434: a transcript is queued in the current send mode.
DlvPush ==
    /\ InHarness
    /\ Len(pending_transcripts) < MaxFlushQueue
    /\ \E text \in scope.texts, source \in scope.sources :
         Commit([Ctx EXCEPT !.pending_transcripts =
                    push_pending_transcript(
                        @, PendingTranscript(text, source, voice_send_mode)).pending])
    /\ step' = StepRec("push_pending_transcript", "")
    /\ UNCHANGED <<clock, voice_send_mode, auto_voice_enabled, running, pc>>

\* Lines 401-425: a transcript polled by the tick whose now is clock is
\* delivered at once; the call returns when its sends have found room.
DlvDirect ==
    /\ InHarness
    /\ transcript_ready(prompt_tracker, last_enter_at, clock, TranscriptIdleTimeout)
    /\ pending_transcripts = <<>>
    /\ \E text \in scope.texts, source \in scope.sources, pty_ok \in BOOLEAN,
          waits \in scope.waits :
         LET s == deliver_now(Began(clock, waits), TranscriptMsg(text, source, 0),
                              clock, pty_ok)
         IN  /\ Ended(s)
             /\ Commit(s)
             /\ step' = StepRec("deliver_transcript",
                                [text |-> text, mode |-> voice_send_mode,
                                 pty_ok |-> pty_ok])
    /\ UNCHANGED <<voice_send_mode, auto_voice_enabled, running, pc>>

\* Lines 508-523 and 355-368: the flush attempt of a tick or of PTY output
\* whose now is clock; the call returns when its sends have found room.
DlvFlush ==
    /\ InHarness
    /\ \E pty_ok \in BOOLEAN, waits \in scope.waits :
         LET s == try_flush_pending(Began(clock, waits), clock,
                                    TranscriptIdleTimeout, pty_ok)
         IN  /\ Ended(s)
             /\ Commit(s)
             /\ step' = StepRec("try_flush_pending",
                                [pending |-> pending_transcripts,
                                 ready |-> transcript_ready(prompt_tracker,
                                                            last_enter_at, clock,
                                                            TranscriptIdleTimeout),
                                 pty_ok |-> pty_ok,
                                 now |-> clock])
    /\ UNCHANGED <<voice_send_mode, auto_voice_enabled, running, pc>>

DeliverNext ==
    \/ DlvOutput
    \/ DlvEnter
    \/ DlvAdvance
    \/ DlvToggleMode
    \/ DlvPush
    \/ DlvDirect
    \/ DlvFlush

SpecDeliver == DeliverInit /\ [][DeliverNext]_vars

----------------------------------------------------------------------------
(* Properties of transcript delivery *)

AllWhite(text) == \A i \in 1..Len(text) : text[i] \in WhiteSpace

\* The text without its leading and trailing whitespace, by position.
Trimmed(text) ==
    IF AllWhite(text) THEN <<>>
    ELSE LET first == CHOOSE i \in 1..Len(text) :
                          /\ text[i] \notin WhiteSpace
                          /\ \A k \in 1..(i - 1) : text[k] \in WhiteSpace
             last == CHOOSE j \in 1..Len(text) :
                         /\ text[j] \notin WhiteSpace
                         /\ \A k \in (j + 1)..Len(text) : text[k] \in WhiteSpace
         IN  SubSeq(text, first, last)

\* What a delivery of text in mode leaves, the PTY accepting writes or not;
\* at is the instant last_enter_at takes when the submit key was written.
Delivered(text, mode, pty_ok, at) ==
    IF Trimmed(text) = <<>>
    THEN pty_out' = <<>> /\ last_enter_at' = last_enter_at
    ELSE IF ~pty_ok
    THEN pty_out' = <<WriteFailed>> /\ last_enter_at' = last_enter_at
    ELSE IF mode = "Auto"
    THEN pty_out' = << Trimmed(text) \o <<CR>> >> /\ last_enter_at' = Some(at)
    ELSE pty_out' = << Trimmed(text) >> /\ last_enter_at' = last_enter_at

\* C1: a delivered transcript is trimmed; blank after trimming, nothing is
\* written to the PTY and last_enter_at stays; in Auto mode the PTY gets the
\* trimmed text followed by the submit key 0x0d and last_enter_at becomes the
\* delivery time; in Insert mode the PTY gets the trimmed text alone and
\* last_enter_at stays.  The delivery time is the now of the tick that
\* polled the transcript (line 425).
C1_DeliveryByMode ==
    [][DlvDirect =>
         Delivered(step'.detail.text, step'.detail.mode, step'.detail.pty_ok,
                   clock)]_vars

\* An Auto delivery of " a" at a time later than the last Enter.
C1_Witness ==
    /\ step.kind = "deliver_transcript"
    /\ step.detail.mode = "Auto"
    /\ step.detail.text = <<SP, "a">>
    /\ pty_out = << <<"a", CR>> >>
    /\ last_enter_at = Some(clock)
    /\ clock > 0

----------------------------------------------------------------------------
(* Properties of readiness *)

\* The readiness rule at the instant now, for the tracker state t and the
\* time enter of the last Enter.
ReadyRule(t, enter, now) ==
    \/ /\ t.last_prompt_seen_at # None
       /\ \/ enter = None
          \/ t.last_prompt_seen_at[1] > enter[1]
    \/ /\ t.last_prompt_seen_at = None
       /\ now - t.last_output_at >= TranscriptIdleTimeout

\* The arguments transcript_ready is called with on the current tracker: no
\* Enter, the last Enter of the run or an Enter at any instant up to now, and
\* now from the present instant on.
ReadyArgs ==
    { a \in [enter : {None, last_enter_at}
                        \cup { Some(e) : e \in 0..(clock + TranscriptIdleTimeout) },
              now : clock..(clock + TranscriptIdleTimeout)] :
        a.enter = None \/ a.enter[1] <= a.now }

\* C2: transcript_ready is true exactly when a prompt has been seen and either
\* no Enter was sent or the prompt was seen strictly later than the last
\* Enter, or no prompt has ever been seen and the PTY has been silent for
\* transcript_idle_timeout; with a prompt seen the idle fallback does not
\* apply, and a prompt seen at the instant of the last Enter is not ready.
C2_ReadinessRule ==
    \A a \in ReadyArgs :
        transcript_ready(prompt_tracker, a.enter, a.now, TranscriptIdleTimeout)
            <=> ReadyRule(prompt_tracker, a.enter, a.now)

\* A flush attempt that found the queue not ready: the prompt was seen before
\* the user's last Enter and the idle timeout has passed since the output.
C2_Witness ==
    /\ step.kind = "try_flush_pending"
    /\ step.detail.pending # <<>>
    /\ ~step.detail.ready
    /\ prompt_tracker.last_prompt_seen_at # None
    /\ last_enter_at # None
    /\ prompt_tracker.last_prompt_seen_at[1] < last_enter_at[1]
    /\ clock - prompt_tracker.last_output_at >= TranscriptIdleTimeout
    /\ pending_transcripts = step.detail.pending
    /\ pty_out = <<>>

----------------------------------------------------------------------------
(* Properties of the coordinator *)

\* The step wrote the submit key 0x0d to the PTY: a write ends with it.
WroteSubmitKey(writes) ==
    \E i \in 1..Len(writes) :
        /\ writes[i] # WriteFailed
        /\ writes[i][Len(writes[i])] = CR

\* C3: last_enter_at changes only in a coordinator step that wrote the submit
\* key 0x0d to the PTY, and then to an instant of that step, which began no
\* earlier than the step before it ended and ends at the new clock value;
\* every step without such a write (an Insert delivery, a blank transcript, a
\* refused PTY write, an Enter consumed to stop a capture, any other event)
\* leaves it unchanged.
C3_EnterOnlyOnSubmit ==
    [][last_enter_at' # last_enter_at =>
         /\ WroteSubmitKey(pty_out')
         /\ \E at \in clock..clock' : last_enter_at' = Some(at)]_vars

\* A transcript queued behind the user's Enter was delivered by the flush of
\* PTY output when the prompt came back: the output arrived at the instant
\* last_output_at shows, and last_enter_at was read after the status send of
\* the delivery, which waited one unit.
C3_Witness ==
    /\ pc = "loop"
    /\ ~auto_voice_enabled
    /\ pty_out = << <<"h", CR>> >>
    /\ pending_transcripts = <<>>
    /\ prompt_tracker.last_output_at >= TickLen
    /\ prompt_tracker.last_prompt_seen_at = Some(prompt_tracker.last_output_at)
    /\ last_enter_at = Some(prompt_tracker.last_output_at + 1)
    /\ clock = prompt_tracker.last_output_at + 1

----------------------------------------------------------------------------
(* SpecQueue: the pending-transcript queue under pushes, merges and flushes *)

QueueScope ==
    [status |-> FALSE,
     horizon |-> MaxTime,
     texts |-> { <<"a", SP>>, <<SP>> },
     sources |-> {"Native"},
     frames |-> {0},
     chunks |-> {},
     waits |-> SendWaits]

QueueInit == HarnessInit(QueueScope, {"Auto"}, DeliverConfigs)

QPush ==
    /\ InHarness
    /\ \E text \in scope.texts, source \in scope.sources, mode \in Modes :
         LET transcript == PendingTranscript(text, source, mode)
             r == push_pending_transcript(pending_transcripts, transcript)
         IN  /\ Commit([Ctx EXCEPT !.pending_transcripts = r.pending])
             /\ step' = StepRec("push_pending_transcript",
                                [transcript |-> transcript, dropped |-> r.dropped])
    /\ UNCHANGED <<clock, voice_send_mode, auto_voice_enabled, running, pc>>

QMerge ==
    /\ InHarness
    /\ LET r == merge_pending_transcripts(pending_transcripts)
       IN  /\ Commit([Ctx EXCEPT !.pending_transcripts = r.pending])
           /\ step' = StepRec("merge_pending_transcripts", r.batch)
    /\ UNCHANGED <<clock, voice_send_mode, auto_voice_enabled, running, pc>>

\* The flush attempt of a tick or of PTY output whose now is clock; the call
\* returns when its sends have found room.
QFlush ==
    /\ InHarness
    /\ \E pty_ok \in BOOLEAN, waits \in scope.waits :
         LET s == try_flush_pending(Began(clock, waits), clock,
                                    TranscriptIdleTimeout, pty_ok)
         IN  /\ Ended(s)
             /\ Commit(s)
    /\ step' = StepRec("try_flush_pending", "")
    /\ UNCHANGED <<voice_send_mode, auto_voice_enabled, running, pc>>

\* Lines 378-379: a select timeout has passed; the tick takes the time and
\* calls on_idle.
QAdvance ==
    /\ InHarness
    /\ clock < MaxTime
    /\ clock' = clock + 1
    /\ Commit([Ctx EXCEPT !.prompt_tracker = on_idle(@, clock + 1, AutoIdleTimeout)])
    /\ step' = StepRec("on_idle", "")
    /\ UNCHANGED <<voice_send_mode, auto_voice_enabled, running, pc>>

QueueNext ==
    \/ QPush
    \/ QMerge
    \/ QFlush
    \/ QAdvance

SpecQueue == QueueInit /\ [][QueueNext]_vars

----------------------------------------------------------------------------
(* Properties of the queue *)

\* What a push of transcript onto the queue before leaves, and returns.
Pushed(before, transcript, after, dropped) ==
    IF Len(before) = 5
    THEN /\ dropped
         /\ Len(after) = 5
         /\ \A i \in 1..4 : after[i] = before[i + 1]
         /\ after[5] = transcript
    ELSE /\ ~dropped
         /\ Len(after) = Len(before) + 1
         /\ \A i \in 1..Len(before) : after[i] = before[i]
         /\ after[Len(after)] = transcript

\* C4: the queue never holds more than 5 entries; a push onto a full queue
\* removes exactly the oldest entry, appends the new one at the back, keeps
\* the order of the others and returns true; a push onto a queue that is not
\* full only appends and returns false.
C4_QueueBound ==
    /\ [](Len(pending_transcripts) <= 5)
    /\ [][QPush => Pushed(pending_transcripts, step'.detail.transcript,
                          pending_transcripts', step'.detail.dropped)]_vars

\* A push onto a full queue that dropped an entry unlike the one pushed.
C4_Witness ==
    /\ step.kind = "push_pending_transcript"
    /\ step.detail.dropped
    /\ Len(pending_transcripts) = 5
    /\ pending_transcripts[5] = step.detail.transcript
    /\ pending_transcripts[1] # step.detail.transcript

\* The length of the front run of the queue: the entries before the first one
\* whose mode is not the front entry's.
FrontRun(queue) ==
    IF \A i \in 1..Len(queue) : queue[i].mode = queue[1].mode
    THEN Len(queue)
    ELSE (CHOOSE i \in 1..Len(queue) :
              /\ queue[i].mode # queue[1].mode
              /\ \A k \in 1..(i - 1) : queue[k].mode = queue[1].mode) - 1

\* C5: a merge removes the maximal front run of entries with the front entry's
\* mode and nothing else; the first entry of another mode and all behind it
\* stay in their order; a batch it returns has the mode of the run, which is
\* the mode of every entry that gave text to it.
C5_BatchModePurity ==
    [][QMerge =>
         /\ pending_transcripts' =
                SubSeq(pending_transcripts, FrontRun(pending_transcripts) + 1,
                       Len(pending_transcripts))
         /\ step'.detail # None =>
                /\ step'.detail[1].mode = pending_transcripts[1].mode
                /\ \E i \in 1..FrontRun(pending_transcripts) :
                       ~AllWhite(pending_transcripts[i].text)
         /\ step'.detail = None =>
                \A i \in 1..FrontRun(pending_transcripts) :
                    AllWhite(pending_transcripts[i].text)]_vars

\* A merge returned an Insert batch and left a queue that starts with an Auto
\* entry followed by an Insert entry.
C5_Witness ==
    /\ step.kind = "merge_pending_transcripts"
    /\ step.detail # None
    /\ step.detail[1].mode = "Insert"
    /\ Len(pending_transcripts) >= 2
    /\ pending_transcripts[1].mode = "Auto"
    /\ pending_transcripts[2].mode = "Insert"

----------------------------------------------------------------------------
(* Properties of the flush *)

\* The trimmed texts of the first n entries that are not blank, in queue
\* order, with one space between two of them.
RECURSIVE BatchText(_, _)
BatchText(queue, n) ==
    IF n = 0 THEN <<>>
    ELSE LET before == BatchText(queue, n - 1)
             text == Trimmed(queue[n].text)
         IN  IF text = <<>> THEN before
             ELSE IF before = <<>> THEN text
             ELSE before \o <<SP>> \o text

\* C6, as amended: try_flush_pending does nothing when the queue is empty or
\* the readiness rule does not hold; otherwise it removes the front run of
\* entries with the front entry's mode and, if a text of the run is not blank,
\* delivers one batch in that mode: the trimmed texts of the run that are not
\* blank, joined by single spaces in queue order, followed by the submit key
\* in Auto mode only.  If every text of the run is blank it delivers nothing.
\* The flush is called with now = clock; when it wrote the submit key,
\* last_enter_at is the instant at which the delivery returned (line 608),
\* where the call ends.
C6_FlushDeliversFrontRun ==
    [][DlvFlush =>
         IF pending_transcripts = <<>>
            \/ ~ReadyRule(prompt_tracker, last_enter_at, clock)
         THEN /\ pending_transcripts' = pending_transcripts
              /\ pty_out' = <<>>
              /\ last_enter_at' = last_enter_at
         ELSE /\ pending_transcripts' =
                     SubSeq(pending_transcripts, FrontRun(pending_transcripts) + 1,
                            Len(pending_transcripts))
              /\ Delivered(BatchText(pending_transcripts,
                                     FrontRun(pending_transcripts)),
                           pending_transcripts[1].mode, step'.detail.pty_ok,
                           clock')]_vars

\* C6, as stated: whenever the queue is not empty and the readiness rule
\* holds, try_flush_pending removes the front run and delivers exactly one
\* batch: one write to the PTY, of the joined text of the run, followed by
\* the submit key in Auto mode only.
C6_FlushAlwaysDelivers ==
    [][DlvFlush /\ pending_transcripts # <<>>
              /\ ReadyRule(prompt_tracker, last_enter_at, clock)
              /\ step'.detail.pty_ok =>
         /\ pending_transcripts' =
                SubSeq(pending_transcripts, FrontRun(pending_transcripts) + 1,
                       Len(pending_transcripts))
         /\ pty_out' =
                << BatchText(pending_transcripts, FrontRun(pending_transcripts))
                   \o (IF pending_transcripts[1].mode = "Auto"
                       THEN <<CR>> ELSE <<>>) >>]_vars

\* Queued Insert entries " a" and "b " were flushed as "a b" without a submit
\* key once the PTY had been idle for the timeout, no prompt seen; the queue
\* is empty.
C6_Witness ==
    /\ step.kind = "try_flush_pending"
    /\ step.detail.pending =
           << PendingTranscript(<<SP, "a">>, "Native", "Insert"),
              PendingTranscript(<<"b", SP>>, "Native", "Insert") >>
    /\ prompt_tracker.last_prompt_seen_at = None
    /\ clock - prompt_tracker.last_output_at >= TranscriptIdleTimeout
    /\ pty_out = << <<"a", SP, "b">> >>
    /\ pending_transcripts = <<>>

\* C7: with the send mode Insert and a capture active, Enter writes nothing
\* to the PTY and leaves last_enter_at unchanged; it sets the stop flag of the
\* job, by an early stop (cancel_pending as before) unless the active source
\* is Python, and then by a cancel (cancel_pending set).  In every other state
\* Enter is written to the PTY as the single byte 0x0d and last_enter_at
\* becomes the time of the write, unless the PTY refuses the write, which
\* ends the loop.
C7_EnterSemantics ==
    [][EnterKey =>
         IF voice_send_mode = "Insert" /\ voice_manager.job # None
         THEN /\ pty_out' = <<>>
              /\ last_enter_at' = last_enter_at
              /\ running'
              /\ voice_manager'.job # None
              /\ voice_manager'.job[1].stop_flag
              /\ voice_manager'.cancel_pending =
                     (voice_manager.cancel_pending
                      \/ voice_manager.active_source = <<"Python">>)
         ELSE /\ voice_manager' = voice_manager
              /\ \/ /\ pty_out' = << <<CR>> >>
                    /\ last_enter_at' = Some(clock')
                    /\ running'
                 \/ /\ pty_out' = <<WriteFailed>>
                    /\ last_enter_at' = last_enter_at
                    /\ ~running']_vars

\* Enter in insert mode asked a native capture to stop early: nothing went to
\* the PTY and no Enter is recorded.
C7_Witness ==
    /\ pc = "loop"
    /\ voice_send_mode = "Insert"
    /\ voice_manager.job # None
    /\ voice_manager.job[1].stop_flag
    /\ ~voice_manager.cancel_pending
    /\ voice_manager.active_source = <<"Native">>
    /\ pty_out = <<>>
    /\ last_enter_at = None

----------------------------------------------------------------------------
(* SpecVM: the voice manager under its calls in any order, and its worker  *)

VmScope ==
    [status |-> FALSE,
     texts |-> { <<"h">> },
     sources |-> Sources,
     frames |-> {0},
     chunks |-> {}]

VmInit == HarnessInit(VmScope, {"Auto"}, VoiceConfigs)

VmUnchanged ==
    /\ pty_out' = <<>>
    /\ writer_out' = <<>>
    /\ UNCHANGED <<clock, voice_send_mode, auto_voice_enabled, last_auto_trigger_at,
                   last_enter_at, pending_transcripts, status_clear_deadline,
                   current_status, prompt_tracker, running, pc, writer, parser,
                   sigwinch_received, scope>>

VmStart ==
    /\ InHarness
    /\ \E trigger \in {"Manual", "Auto"}, env \in StartEnvs :
         LET r == start_capture(voice_manager, trigger, env)
         IN  /\ voice_manager' = r.vm
             /\ step' = StepRec("start_capture", r.ret)
    /\ VmUnchanged

VmCancel ==
    /\ InHarness
    /\ LET r == cancel_capture(voice_manager)
       IN  /\ voice_manager' = r.vm
           /\ step' = StepRec("cancel_capture", r.ret)
    /\ VmUnchanged

VmEarlyStop ==
    /\ InHarness
    /\ LET r == request_early_stop(voice_manager)
       IN  /\ voice_manager' = r.vm
           /\ step' = StepRec("request_early_stop", r.ret)
    /\ VmUnchanged

\* The poll; step keeps what it returned and whether the job it found was
\* cancelled or asked to stop.
VmPoll ==
    /\ InHarness
    /\ LET r == poll_message(voice_manager)
       IN  /\ voice_manager' = r.vm
           /\ step' = StepRec("poll_message",
                  [ret |-> r.ret,
                   cancelled |-> voice_manager.cancel_pending,
                   stopped |-> IsSome(voice_manager.job)
                               /\ Unwrap(voice_manager.job).stop_flag,
                   ended |-> IsSome(voice_manager.job) /\ r.vm.job = None])
    /\ VmUnchanged

VmNext ==
    \/ VmStart
    \/ VmCancel
    \/ VmEarlyStop
    \/ VmPoll
    \/ WorkerSend
    \/ WorkerDie

SpecVM == VmInit /\ [][VmNext]_vars

----------------------------------------------------------------------------
(* Properties of the voice manager *)

\* The worker of the active job has sent a message or has gone.
WorkerReported ==
    /\ voice_manager.job # None
    /\ \/ voice_manager.job[1].chan # None
       \/ ~voice_manager.job[1].alive

\* The manager is as it was, but for the stop flag of its job, which is set.
OnlyStopFlagSet ==
    /\ voice_manager'.job # None
    /\ voice_manager'.job[1].stop_flag
    /\ voice_manager'.job[1].chan = voice_manager.job[1].chan
    /\ voice_manager'.job[1].alive = voice_manager.job[1].alive
    /\ voice_manager'.active_source = voice_manager.active_source
    /\ voice_manager'.recorder = voice_manager.recorder
    /\ voice_manager'.transcriber = voice_manager.transcriber

\* C8: cancel_capture on an active job sets the stop flag of the job and
\* returns true, and on an idle manager returns false and changes nothing;
\* the cancel stays pending as long as the job stays; the poll_message that
\* then receives a message of the worker, or finds the worker gone, returns
\* None and leaves the manager idle, cancel_pending cleared and no active
\* source.
C8_CancelledCaptureSilent ==
    /\ [][VmCancel =>
            IF voice_manager.job # None
            THEN step'.detail /\ OnlyStopFlagSet /\ voice_manager'.cancel_pending
            ELSE ~step'.detail /\ voice_manager' = voice_manager]_vars
    /\ [][voice_manager.cancel_pending /\ voice_manager'.job # None =>
            voice_manager'.cancel_pending]_vars
    /\ [][VmPoll /\ voice_manager.cancel_pending /\ WorkerReported =>
            /\ step'.detail.ret = None
            /\ voice_manager'.job = None
            /\ ~voice_manager'.cancel_pending
            /\ voice_manager'.active_source = None]_vars

\* A poll found the message of a cancelled capture, returned None and left
\* the manager idle.
C8_Witness ==
    /\ step.kind = "poll_message"
    /\ step.detail.cancelled
    /\ step.detail.ended
    /\ step.detail.ret = None
    /\ voice_manager.job = None
    /\ ~voice_manager.cancel_pending
    /\ voice_manager.active_source = None

\* C9: request_early_stop on an active job sets the stop flag of the job,
\* changes nothing else and returns true; on an idle manager it returns false
\* and changes nothing; the poll_message that receives the message of a job
\* that is not cancelled returns that message, stop requested or not.
C9_EarlyStopKeepsMessage ==
    /\ [][VmEarlyStop =>
            IF voice_manager.job # None
            THEN /\ step'.detail
                 /\ OnlyStopFlagSet
                 /\ voice_manager'.cancel_pending = voice_manager.cancel_pending
            ELSE ~step'.detail /\ voice_manager' = voice_manager]_vars
    /\ [][VmPoll /\ ~voice_manager.cancel_pending /\ voice_manager.job # None
                 /\ voice_manager.job[1].chan # None =>
            /\ step'.detail.ret = voice_manager.job[1].chan
            /\ voice_manager'.job = None]_vars

\* A poll returned the transcript of a job that had been asked to stop early.
C9_Witness ==
    /\ step.kind = "poll_message"
    /\ step.detail.stopped
    /\ ~step.detail.cancelled
    /\ step.detail.ret # None
    /\ step.detail.ret[1].type = "Transcript"
    /\ voice_manager.job = None

\* C10: the manager holds at most one job; start_capture with a job active,
\* cancelled or not, returns None and leaves the manager as it was: the same
\* job and worker, cancel_pending and active source.
C10_AtMostOneJob ==
    /\ [](Len(voice_manager.job) <= 1)
    /\ [][VmStart /\ voice_manager.job # None =>
            /\ step'.detail = "None"
            /\ voice_manager' = voice_manager]_vars

\* start_capture returned None on a cancelled job whose worker has not yet
\* reported.
C10_Witness ==
    /\ step.kind = "start_capture"
    /\ step.detail = "None"
    /\ voice_manager.job # None
    /\ voice_manager.cancel_pending
    /\ voice_manager.job[1].alive
    /\ voice_manager.job[1].chan = None

----------------------------------------------------------------------------
(* SpecAuto: the coordinator with auto-voice, PTY output and the voice     *)
(* worker, over a longer stretch of time; the only terminal input is Enter. *)

MaxAutoTime == 4

\* The instants and idle timeouts should_auto_trigger is evaluated for.
AutoTimes == 0..MaxAutoTime

\* A prompt line and a line that is no prompt.
AutoScope ==
    [status |-> FALSE,
     horizon |-> MaxAutoTime,
     texts |-> { <<"h">> },
     sources |-> {"Native"},
     frames |-> {0},
     chunks |-> { <<CR, ">", LF>>, <<"x", LF>> },
     waits |-> SendWaits]

AutoInit ==
    MainInit(AutoScope, {Some(<<">">>)},
             {[whisper_model_path |-> TRUE, no_python_fallback |-> FALSE]})

\* Lines 341-369: PTY output arrives; the PTY and the writer take what is
\* sent to them.
AtOutput ==
    /\ InLoop
    /\ \E now \in SelectWindow, waits \in scope.waits, data \in scope.chunks :
         LET r == pty_output(Began(now, waits), data, TRUE, TRUE)
         IN  /\ Ended(r.s)
             /\ Commit(r.s)
    /\ step' = StepRec("output", "")
    /\ UNCHANGED <<voice_send_mode, auto_voice_enabled, running, pc>>

\* Lines 381-523 of a tick: the poll, the polled message and the flush, which
\* leave the state the auto-trigger evaluation reads.
tick_until_auto(s, now, pty_ok, flush_ok, env) ==
    LET p == poll_message(s.voice_manager)
        s1 == [s EXCEPT !.voice_manager = p.vm]
    IN  try_flush_pending(
            IF IsSome(p.ret) THEN on_message(s1, Unwrap(p.ret), now, pty_ok, env)
            ELSE s1,
            now, TranscriptIdleTimeout, flush_ok)

\* What a tick's auto-trigger evaluation (lines 525-545) read and did.
AutoEval(pre, now, env) ==
    [tracker |-> pre.prompt_tracker,
     last |-> pre.last_auto_trigger_at,
     idle |-> is_idle(pre.voice_manager),
     now |-> now,
     fired |-> is_idle(pre.voice_manager)
               /\ ~is_idle(auto_trigger(pre, now, env).voice_manager)]

\* Lines 370-563: one tick of the coordinator, one select timeout later; the
\* PTY takes what is written.
AtTick ==
    /\ InLoop
    /\ \E at \in TimeoutWindow, waits \in scope.waits, env \in StartEnvs,
          size \in SizesRead(sigwinch_received) :
         \E moved \in WorkerMoves(
                 tick_resize(Began(at, waits),
                             AtomicBool_swap(sigwinch_received, FALSE).ret, size), at) :
         LET sw == AtomicBool_swap(sigwinch_received, FALSE)
             s0 == worker_moved(tick_resize(Began(at, waits), sw.ret, size), moved)
             s == default_arm(Began(at, waits), sw.ret, size, moved, TRUE, TRUE, env)
         IN  /\ sigwinch_received' = sw.flag
             /\ Ended(s)
             /\ CommitLocals(s)
             /\ writer' = writer
             /\ step' = StepRec("tick",
                    AutoEval(tick_until_auto(tick_begin(s0, s0.t), s0.t,
                                             TRUE, TRUE, env), s0.t, env))
    /\ UNCHANGED <<voice_send_mode, auto_voice_enabled, running, pc>>

AutoNext ==
    \/ Startup
    \/ EnterKey
    \/ AtOutput
    \/ AtTick
    \/ WorkerSend
    \/ WorkerDie

SpecAuto == AutoInit /\ [][AutoNext]_vars

\* The three-case rule: never seen output; a prompt seen; output and no prompt.
ThreeCaseRule(t, now, idle_timeout, last) ==
    IF ~t.has_seen_output
    THEN last = None /\ now - t.last_output_at >= idle_timeout
    ELSE IF t.last_prompt_seen_at # None
    THEN last = None \/ t.last_prompt_seen_at[1] > last[1]
    ELSE /\ now - t.last_output_at >= idle_timeout
         /\ (last = None \/ t.last_output_at > last[1])

\* The rule with the idle case open to a tracker that has seen a prompt.
FallThroughRule(t, now, idle_timeout, last) ==
    IF ~t.has_seen_output
    THEN last = None /\ now - t.last_output_at >= idle_timeout
    ELSE \/ /\ t.last_prompt_seen_at # None
            /\ (last = None \/ t.last_prompt_seen_at[1] > last[1])
         \/ /\ now - t.last_output_at >= idle_timeout
            /\ (last = None \/ t.last_output_at > last[1])

\* The arguments of should_auto_trigger for a tracker: now is not before the
\* tracker's last output.
AutoArgs(t) ==
    { a \in [now : AutoTimes, idle_timeout : AutoTimes,
             last : {None} \cup { Some(l) : l \in AutoTimes }] :
        a.now >= t.last_output_at }

\* C11 (amended): for every tracker state the coordinator reaches and every
\* now, idle_timeout and last_trigger_at, should_auto_trigger is true exactly
\* when: the tracker has never seen output, last_trigger_at is None and the
\* tracker is idle_ready; or the tracker has seen output and either a prompt
\* was seen after last_trigger_at (or last_trigger_at is None), or the tracker
\* is idle_ready and its last output is after last_trigger_at (or
\* last_trigger_at is None), whether or not a prompt has been seen.  Equal
\* timestamps do not fire.
C11_AutoTriggerRule ==
    \A a \in AutoArgs(prompt_tracker) :
        should_auto_trigger(prompt_tracker, a.now, a.idle_timeout, a.last)
        <=> FallThroughRule(prompt_tracker, a.now, a.idle_timeout, a.last)

\* C11 as stated: should_auto_trigger equals the three-case rule, in which a
\* tracker that has seen a prompt fires only on a prompt newer than the last
\* trigger.
C11_ThreeCaseRule ==
    \A a \in AutoArgs(prompt_tracker) :
        should_auto_trigger(prompt_tracker, a.now, a.idle_timeout, a.last)
        <=> ThreeCaseRule(prompt_tracker, a.now, a.idle_timeout, a.last)

\* A tick evaluated the rule for a tracker whose prompt is not newer than the
\* last trigger while its output is, after an idle window: the evaluation was
\* true, and a capture started.
C11_Witness ==
    /\ step.kind = "tick"
    /\ step.detail.fired
    /\ step.detail.tracker.has_seen_output
    /\ step.detail.tracker.last_prompt_seen_at # None
    /\ step.detail.last # None
    /\ step.detail.tracker.last_prompt_seen_at[1] <= step.detail.last[1]
    /\ step.detail.tracker.last_output_at > step.detail.last[1]

----------------------------------------------------------------------------
(* SpecQuiet: the coordinator with auto-voice while the PTY produces no    *)
(* output; the user may press Enter, which in insert mode ends a capture.  *)

QuietScope ==
    [status |-> FALSE,
     horizon |-> MaxAutoTime,
     texts |-> { <<"h">> },
     sources |-> {"Python"},
     frames |-> {0},
     chunks |-> {},
     waits |-> SendWaits]

\* No whisper model is configured: captures run on the python pipeline.
QuietInit ==
    MainInit(QuietScope, {Some(<<">">>)},
             {[whisper_model_path |-> FALSE, no_python_fallback |-> FALSE]})

QuietNext ==
    \/ Startup
    \/ EnterKey
    \/ AtTick
    \/ WorkerSend
    \/ WorkerDie

SpecQuiet == QuietInit /\ [][QuietNext]_vars

\* A step that starts a capture: a fresh job is in place of none or of one
\* whose worker had ended.
CaptureStarted ==
    /\ voice_manager'.job # None
    /\ voice_manager'.job[1].alive
    /\ (voice_manager.job = None \/ ~voice_manager.job[1].alive)

\* C12 (amended): while the tracker has seen neither output nor activity,
\* auto-voice fires only once: with no PTY output, a step that leaves
\* has_seen_output false starts an automatic capture only if none was started
\* before (last_auto_trigger_at is None).  The outcome of a capture polled
\* while auto-voice is enabled is noted as activity, and from then on the
\* tracker counts as having seen output.
C12_OnceWhileUnseen ==
    [][CaptureStarted /\ ~prompt_tracker'.has_seen_output
         => last_auto_trigger_at = None]_vars

\* C12 as stated: with no PTY output at most one automatic capture is ever
\* started, whatever the outcome of the captures.
C12_OnceEver ==
    [][CaptureStarted => last_auto_trigger_at = None]_vars

\* The capture started at startup was cancelled by Enter and polled, and the
\* ticks after it evaluated the rule for a tracker without output: no capture
\* was started by them.
C12_Witness ==
    /\ step.kind = "tick"
    /\ ~step.detail.tracker.has_seen_output
    /\ step.detail.idle
    /\ step.detail.last # None
    /\ step.detail.now - step.detail.tracker.last_output_at >= AutoIdleTimeout
    /\ ~step.detail.fired
    /\ auto_voice_enabled

----------------------------------------------------------------------------
\* The tick just taken evaluated the auto-trigger rule for a tracker that has
\* seen output and no prompt, after an earlier trigger.
GatedEval ==
    /\ step.kind = "tick"
    /\ step.detail.tracker.has_seen_output
    /\ step.detail.tracker.last_prompt_seen_at = None
    /\ step.detail.last # None

\* C13: with output seen and no prompt ever detected, after an auto-trigger
\* at last_auto_trigger_at a tick's evaluation of should_auto_trigger is true,
\* and a capture is started by it, only if the tracker's last output or noted
\* activity is later than that trigger and an idle window of the auto idle
\* timeout has elapsed since that output; so two auto-triggers are more than
\* an idle window apart, with activity between them.
C13_AutoTriggerGating ==
    GatedEval
    /\ (\/ step.detail.fired
        \/ should_auto_trigger(step.detail.tracker, step.detail.now,
                               AutoIdleTimeout, step.detail.last))
    => /\ step.detail.tracker.last_output_at > step.detail.last[1]
       /\ step.detail.now - step.detail.tracker.last_output_at >= AutoIdleTimeout
       /\ step.detail.now - step.detail.last[1] > AutoIdleTimeout

\* A second auto-trigger: after the first one an Empty or Error outcome or new
\* output was noted, an idle window passed, and the tick started a capture.
C13_Witness ==
    /\ GatedEval
    /\ step.detail.fired
    /\ last_auto_trigger_at = Some(step.detail.now)
    /\ step.detail.last[1] < step.detail.tracker.last_output_at

----------------------------------------------------------------------------
\* C14: delivery never blocks on prompt detection.  In finite form, for the
\* case the claim names (a prompt was detected before the last Enter and not
\* again since): a tick that finds the queue non-empty, no capture outcome to
\* handle, and the PTY output idle for at least the transcript idle timeout
\* takes the front batch off the queue.
C14_IdleFallbackDelivers ==
    [][/\ AtTick
       /\ pending_transcripts # <<>>
       /\ is_idle(voice_manager)
       /\ idle_ready(prompt_tracker, step'.detail.now, TranscriptIdleTimeout)
       /\ last_enter_at # None
       /\ prompt_tracker.last_prompt_seen_at # None
       /\ prompt_tracker.last_prompt_seen_at[1] < last_enter_at[1]
       => Len(pending_transcripts') < Len(pending_transcripts)]_vars

----------------------------------------------------------------------------
(* SpecTraffic: the select loop under input and output traffic.  An event   *)
(* that arrives before the default timeout of a select is handled at its    *)
(* arrival time, and the default branch runs only when a whole timeout      *)
(* passed with no event.                                                    *)

MaxTrafficTime == 5

TrafficScope ==
    [status |-> TRUE,
     horizon |-> MaxTrafficTime,
     texts |-> { <<"h">> },
     sources |-> {"Native"},
     frames |-> {0},
     chunks |-> { <<"x", LF>> },
     waits |-> SendWaits]

TrafficInit ==
    MainInit(TrafficScope, {Some(<<">">>)},
             {[whisper_model_path |-> TRUE, no_python_fallback |-> FALSE]})

TrafficNext ==
    \/ Startup
    \/ ToggleSendMode
    \/ PtyOutput
    \/ Tick
    \/ WorkerSend
    \/ WorkerDie

SpecTraffic == TrafficInit /\ [][TrafficNext]_vars

\* C15: the tick's work is done at most one tick after it is due, whatever
\* the traffic.  For the status deadline: whenever the coordinator has
\* handled an event, a status deadline that is still pending is not overdue
\* by more than one tick.
C15_TickServiceBound ==
    status_clear_deadline # None
    => clock <= status_clear_deadline[1] + TickLen

----------------------------------------------------------------------------
(* SpecExit: the coordinator with the status line and the writer's         *)
(* messages observed, under the events that write to the PTY or end the    *)
(* loop.                                                                    *)

ExitScope ==
    [status |-> TRUE,
     horizon |-> MaxLoopTime,
     texts |-> { <<SP, "h", SP>> },
     sources |-> {"Native"},
     frames |-> {0},
     chunks |-> { <<CR, ">", LF>> },
     waits |-> SendWaits]

ExitInit ==
    MainInit(ExitScope, {Some(<<">">>)},
             {[whisper_model_path |-> TRUE, no_python_fallback |-> FALSE]})

\* The events that end the loop, the events that write to the PTY, and the
\* worker.
ExitNext ==
    \/ Startup
    \/ InputBytes
    \/ EnterKey
    \/ Exit
    \/ InputClosed
    \/ PtyOutput
    \/ PtyClosed
    \/ Tick
    \/ WorkerSend
    \/ WorkerDie
    \/ Shutdown

SpecExit == ExitInit /\ [][ExitNext]_vars

\* A PTY write failed in this step.
WriteFailedNow == \E i \in 1..Len(pty_out') : pty_out'[i] = WriteFailed

\* A step of the voice worker thread, not of the coordinator.
WorkerStep == WorkerSend \/ WorkerDie

\* What is left to happen once the loop has ended: the worker may still move;
\* the coordinator only sends ClearStatus and Shutdown and returns.
AfterLoop ==
    /\ (pc = "loop" /\ ~running) =>
         \/ WorkerStep
         \/ /\ pc' = "done"
            /\ pty_out' = <<>>
            /\ voice_manager' = voice_manager
            /\ writer_out' = << <<"ClearStatus">>, <<"Shutdown">> >>
    /\ pc = "done" => WorkerStep

\* C16: shutdown.  An Exit event, the disconnection of the input channel or
\* of the PTY-output channel, and every failed PTY write end the loop; once
\* it has ended the coordinator processes no event (nothing is written to the
\* PTY, no capture is started), sends ClearStatus and then Shutdown to the
\* writer as its last two messages, and returns.
C16_Shutdown ==
    [][/\ (Exit \/ InputClosed \/ PtyClosed) => ~running'
       /\ WriteFailedNow => ~running'
       /\ AfterLoop]_vars

----------------------------------------------------------------------------
(* SpecBackPressure: the PTY output branch of the loop and the writer      *)
(* thread, with the bounded channel between them.  No capture runs, so     *)
(* PtyOutput is the only message the loop sends.                           *)

MaxBackTime == 4

BackScope ==
    [status |-> TRUE,
     horizon |-> MaxBackTime,
     texts |-> {},
     sources |-> {},
     frames |-> {},
     chunks |-> { <<"x", LF>>, <<CR, ">", LF>> }]

BackInit ==
    /\ MainInit(BackScope, {Some(<<">">>)},
                {[whisper_model_path |-> TRUE, no_python_fallback |-> FALSE]})
    /\ ~auto_voice_enabled

\* crossbeam_channel::Sender::send on the bounded channel, seen from main:
\* "sent" when there is room, "err" when the receiver is gone, else "blocks".
writer_tx_send(w) ==
    IF ~w.alive THEN "err"
    ELSE IF Len(w.chan) < WRITER_CHANNEL_CAPACITY THEN "sent"
    ELSE "blocks"

\* Lines 152-158 with auto-voice off: the channel is created, the thread
\* spawned and the terminal size sent.
BpStartup ==
    /\ pc = "start"
    /\ \E size \in TerminalSizes :
         writer' = IF size = None THEN [writer EXCEPT !.stdout = <<>>]
                   ELSE [writer EXCEPT
                            !.chan = Append(@, <<"Resize", size[1].rows, size[1].cols>>),
                            !.stdout = <<>>]
    /\ CommitMain(Ctx)
    /\ pc' = "loop"
    /\ step' = StepRec("start", "")
    /\ UNCHANGED <<clock, voice_send_mode, auto_voice_enabled, running>>

\* Lines 341-365: PTY output is received and passed on to the writer.  When
\* send blocks, main stays in it with the message, which step keeps until
\* send returns.
BpOutput ==
    /\ InLoop
    /\ \E now \in SelectWindow, data \in scope.chunks :
         LET s0 == Began(now, <<>>)
             s1 == [s0 EXCEPT !.prompt_tracker = feed_output(@, data, s0.t)]
             s2 == try_flush_pending(s1, s1.t, TranscriptIdleTimeout, TRUE)
             msg == <<"PtyOutput", data>>
             sent == writer_tx_send(writer)
         IN  /\ clock' = now
             /\ CommitMain(s2)
             /\ writer' = IF sent = "sent"
                          THEN [writer EXCEPT !.chan = Append(@, msg), !.stdout = <<>>]
                          ELSE [writer EXCEPT !.stdout = <<>>]
             /\ running' = (sent # "err")
             /\ pc' = IF sent = "blocks" THEN "send" ELSE "loop"
             /\ step' = StepRec("output", msg)
    /\ UNCHANGED <<voice_send_mode, auto_voice_enabled>>

\* Line 361: the blocked send returns, with Ok once there is room and with
\* Err once the receiver is gone.
BpSendReturns ==
    /\ pc = "send"
    /\ writer_tx_send(writer) # "blocks"
    /\ writer' = IF writer_tx_send(writer) = "sent"
                 THEN [writer EXCEPT !.chan = Append(@, step.detail), !.stdout = <<>>]
                 ELSE [writer EXCEPT !.stdout = <<>>]
    /\ running' = (writer_tx_send(writer) # "err")
    /\ pc' = "loop"
    /\ CommitMain(Ctx)
    /\ step' = StepRec("sent", step.detail)
    /\ UNCHANGED <<clock, voice_send_mode, auto_voice_enabled>>

\* Line 872: recv_timeout returns the oldest message of the channel, whose
\* slot is free from then on.
BpWriterRecv ==
    /\ writer.alive
    /\ writer.taken = None
    /\ writer.chan # <<>>
    /\ writer' = [writer EXCEPT !.chan = Tail(@),
                                !.taken = Some([msg |-> Head(writer.chan), at |-> clock]),
                                !.stdout = <<>>]
    /\ CommitMain(Ctx)
    /\ step' = StepRec("recv", step.detail)
    /\ UNCHANGED <<clock, voice_send_mode, auto_voice_enabled, running, pc>>

\* The instants from now on in the run: stdout is a pipe or a terminal that
\* takes a write at once or makes the thread wait.
WriteWindow(now) == now..scope.horizon

\* Lines 873-933: the arm of the message taken has run; its checks are made
\* at the instant of the receive, its writes return at done, where the arm
\* reads the clock (lines 877 and 998), and the flush that ends the arm (lines
\* 881 and 999) returns at flushed, which is when the step is taken.  Main
\* runs while the thread waits in the flush, so done can lie before the
\* present instant: any instant since the receive.  An arm that writes
\* nothing does not wait.
BpWriterWrite ==
    /\ writer.alive
    /\ writer.taken # None
    /\ \E done \in WriteWindow(Unwrap(writer.taken).at),
          size \in TerminalSizes, out_ok \in BOOLEAN :
         \E flushed \in WriteWindow(IF done >= clock THEN done ELSE clock) :
             LET w == writer_message(
                          [writer EXCEPT !.taken = None, !.stdout = <<>>],
                          Unwrap(writer.taken).msg, Unwrap(writer.taken).at,
                          done, size, out_ok)
             IN  /\ (w.stdout = <<>>) => (done = clock /\ flushed = done)
                 /\ writer' = w
                 /\ clock' = flushed
    /\ CommitMain(Ctx)
    /\ step' = StepRec("write", step.detail)
    /\ UNCHANGED <<voice_send_mode, auto_voice_enabled, running, pc>>

\* The instants at which the recv_timeout that began at clock returns
\* Timeout: a whole RecvTimeout later, which in whole units of the clock is
\* that many or one more.
RecvTimeoutWindow ==
    { now \in (clock + RecvTimeout)..(clock + RecvTimeout + 1) : now <= scope.horizon }

\* Lines 934-946: the channel stayed empty for the whole receive timeout.
BpWriterTimeout ==
    /\ writer.alive
    /\ writer.taken = None
    /\ writer.chan = <<>>
    /\ \E now \in RecvTimeoutWindow, size \in TerminalSizes :
         /\ clock' = now
         /\ writer' = maybe_redraw_status(
                          [writer EXCEPT !.stdout = <<>>], now, now, size)
    /\ CommitMain(Ctx)
    /\ step' = StepRec("timeout", step.detail)
    /\ UNCHANGED <<voice_send_mode, auto_voice_enabled, running, pc>>

BackNext ==
    \/ BpStartup
    \/ BpOutput
    \/ BpSendReturns
    \/ BpWriterRecv
    \/ BpWriterWrite
    \/ BpWriterTimeout

SpecBackPressure == BackInit /\ [][BackNext]_vars

\* C17: a full writer channel is fatal.  Whenever the coordinator has to
\* enqueue a message while the channel holds WRITER_CHANNEL_CAPACITY
\* messages, that step ends the loop (running becomes false) and the
\* coordinator is not left waiting in send.
C17_BackPressureFatal ==
    [][step'.kind = "output" /\ pc = "loop"
       /\ Len(writer.chan) = WRITER_CHANNEL_CAPACITY
       => ~running' /\ pc' # "send"]_vars

----------------------------------------------------------------------------
(* SpecWriter: the writer thread alone, with the instants at which its     *)
(* messages arrive, on a stdout that takes every write at once.  A message *)
(* that arrives before the receive timeout is handled at its arrival; the  *)
(* timeout branch runs only when no message arrived for a whole timeout.   *)

MaxWriterTime == 10

WriterScope ==
    [status |-> TRUE,
     horizon |-> MaxWriterTime,
     texts |-> { <<"x", "c">>, <<"x", BEL, "c", "m">> },
     sources |-> {},
     frames |-> {},
     chunks |-> { <<"x">> }]

WriterInit ==
    HarnessInit(WriterScope, {"Auto"},
                {[whisper_model_path |-> TRUE, no_python_fallback |-> FALSE]})

\* The messages main sends (lines 82-88).
WriterMessages ==
    { <<"PtyOutput", data>> : data \in scope.chunks }
    \cup { <<"Status", text>> : text \in scope.texts }
    \cup { <<"ClearStatus">>, <<"Resize", 2, 3>>, <<"Shutdown">> }

\* The instants at which the recv_timeout that began at clock can return a
\* message: up to RecvTimeout later.
RecvWindow == { now \in clock..(clock + RecvTimeout) : now <= scope.horizon }

WrUnchanged ==
    /\ CommitMain(Ctx)
    /\ UNCHANGED <<voice_send_mode, auto_voice_enabled, running, pc>>

\* Lines 872-921: a message is received.
WrMessage ==
    /\ writer.alive
    /\ \E now \in RecvWindow, msg \in WriterMessages,
          size \in TerminalSizes, out_ok \in BOOLEAN :
         /\ clock' = now
         /\ writer' = writer_message([writer EXCEPT !.stdout = <<>>],
                                     msg, now, now, size, out_ok)
         /\ step' = StepRec("recv", msg)
    /\ WrUnchanged

\* Lines 922-934: no message for the whole receive timeout.
WrTimeout ==
    /\ writer.alive
    /\ \E now \in RecvTimeoutWindow, size \in TerminalSizes :
         /\ clock' = now
         /\ writer' = maybe_redraw_status([writer EXCEPT !.stdout = <<>>],
                                          now, now, size)
    /\ step' = StepRec("timeout", "")
    /\ WrUnchanged

\* Lines 935-937: every sender is gone.
WrDisconnected ==
    /\ writer.alive
    /\ writer' = [writer EXCEPT !.alive = FALSE, !.stdout = <<>>]
    /\ step' = StepRec("disconnected", "")
    /\ clock' = clock
    /\ WrUnchanged

WriterNext ==
    \/ WrMessage
    \/ WrTimeout
    \/ WrDisconnected

SpecWriter == WriterInit /\ [][WriterNext]_vars

\* The step writes the status line or erases it.
StatusDrawn ==
    \E i \in DOMAIN writer'.stdout : writer'.stdout[i][1] \in {"status", "clear"}

\* C18: the writer draws or erases the status line only when at least
\* STATUS_IDLE_MS have passed since the last PTY output or at least
\* STATUS_MAX_WAIT_MS since the last status draw (since the thread's start
\* before the first one); so a draw made less than STATUS_IDLE_MS after PTY
\* output comes at least STATUS_MAX_WAIT_MS after the draw before it.
C18_StatusDeferral ==
    [][StatusDrawn
       => \/ clock' - writer.last_output_at >= STATUS_IDLE_MS
          \/ clock' - writer.last_status_draw_at >= STATUS_MAX_WAIT_MS]_vars

\* A status is drawn under steady output: the draw before it was
\* STATUS_MAX_WAIT_MS earlier and the last output less than STATUS_IDLE_MS.
C18_Witness ==
    /\ \E i \in DOMAIN writer.stdout : writer.stdout[i][1] = "status"
    /\ writer.last_status_draw_at = clock
    /\ clock - writer.last_output_at < STATUS_IDLE_MS
    /\ writer.last_output_at > 0

\* C19: a pending status or clear is drawn when it is due.  While the
\* thread runs, a status or clear that is still pending after a turn of the
\* loop is overdue by less than one receive timeout, with one unit more for
\* the rounding of the instants: less than STATUS_IDLE_MS + RecvTimeout + 1
\* have passed since the last PTY output, and less than
\* STATUS_MAX_WAIT_MS + RecvTimeout + 1 since the last status draw.
C19_PendingDrawnWhenDue ==
    writer.alive /\ (writer.pending_status # None \/ writer.pending_clear)
    => /\ clock - writer.last_output_at < STATUS_IDLE_MS + RecvTimeout + 1
       /\ clock - writer.last_status_draw_at < STATUS_MAX_WAIT_MS + RecvTimeout + 1

----------------------------------------------------------------------------
(* SpecParser: the calls the input thread makes on its InputParser, with   *)
(* the bytes of stdin fed one at a time and a read ending at any point.    *)
(* out holds the events emitted so far; step holds the bytes fed so far.   *)

MaxInput == 4

StdinBytes ==
    {DC1, DC2, SYN, DC4, GS, FS, US, CR, LF, ESC, "[", "u", "4", ";", "x"}

ParserInit ==
    HarnessInit(VmScope, {"Auto"},
                {[whisper_model_path |-> TRUE, no_python_fallback |-> FALSE]})

\* The bytes fed so far.
Stream == IF step.kind = "new" THEN <<>> ELSE step.detail

PsUnchanged ==
    /\ pty_out' = <<>>
    /\ writer_out' = <<>>
    /\ UNCHANGED <<clock, voice_send_mode, auto_voice_enabled, last_auto_trigger_at,
                   last_enter_at, pending_transcripts, status_clear_deadline,
                   current_status, prompt_tracker, voice_manager, running, pc,
                   writer, sigwinch_received, scope>>

\* Line 849: consume_bytes with the next byte of the read.
PsConsume ==
    /\ InHarness
    /\ Len(Stream) < MaxInput
    /\ \E byte \in StdinBytes :
         /\ parser' = consume_bytes(parser, <<byte>>)
         /\ step' = StepRec("consume_bytes", Append(Stream, byte))
    /\ PsUnchanged

\* Line 850: the flush at the end of a read.
PsEndRead ==
    /\ InHarness
    /\ parser' = flush_pending(parser)
    /\ step' = StepRec("flush_pending", Stream)
    /\ PsUnchanged

ParserNext ==
    \/ PsConsume
    \/ PsEndRead

SpecParser == ParserInit /\ [][ParserNext]_vars

\* The fixed event of each control byte.
FixedEvent(byte) ==
    CASE byte = DC1 -> <<"Exit">>
      [] byte = DC2 -> <<"VoiceTrigger">>
      [] byte = SYN -> <<"ToggleAutoVoice">>
      [] byte = DC4 -> <<"ToggleSendMode">>
      [] byte = GS -> <<"IncreaseSensitivity">>
      [] byte \in {FS, US} -> <<"DecreaseSensitivity">>
      [] byte \in {CR, LF} -> <<"EnterKey">>

\* C20: a control byte that is fed while no escape sequence is in progress,
\* and that is no LF directly after a CR, first flushes the pending bytes as
\* one Bytes event and then emits its fixed event.
C20_ControlByteMapping ==
    [][step'.kind = "consume_bytes"
       /\ step'.detail[Len(step'.detail)] \in {DC1, DC2, SYN, DC4, GS, FS, US, CR, LF}
       /\ parser.esc_buffer = None
       /\ ~(/\ step'.detail[Len(step'.detail)] = LF
            /\ Stream # <<>>
            /\ Stream[Len(Stream)] = CR)
       => /\ parser'.out =
                parser.out
                \o (IF parser.pending # <<>> THEN << <<"Bytes", parser.pending>> >>
                    ELSE <<>>)
                \o << FixedEvent(step'.detail[Len(step'.detail)]) >>
          /\ parser'.pending = <<>>]_vars

\* The byte fed by this step, when the step is a call of consume_bytes.
FedByte == step'.detail[Len(step'.detail)]
Feeds == step'.kind = "consume_bytes"

\* The bytes that are neither a control byte of the overlay nor ESC.
OrdinaryBytes == StdinBytes \ {DC1, DC2, SYN, DC4, GS, FS, US, CR, LF, ESC}

\* The last byte fed was a carriage return that the decoder took as a key:
\* its EnterKey is the last event.  A carriage return absorbed by an escape
\* sequence is in esc_buffer, in pending or in a Bytes event instead.
AfterEnterCR ==
    /\ Stream # <<>>
    /\ Stream[Len(Stream)] = CR
    /\ parser.esc_buffer = None
    /\ parser.pending = <<>>
    /\ parser.out # <<>>
    /\ parser.out[Len(parser.out)] = <<"EnterKey">>

\* C21: CRLF collapse.  A carriage return taken as a key emits EnterKey; a
\* line feed fed directly after it, in the same read or in a later one,
\* emits nothing and leaves nothing pending, so the pair yields exactly one
\* EnterKey; any other ordinary byte x fed directly after it emits nothing
\* at once and is kept as the pending bytes <<x>>, and the flush at the end
\* of a read emits the pending bytes as one Bytes event, so x is not lost.
C21_CrlfCollapse ==
    [][/\ Feeds /\ FedByte = CR /\ parser.esc_buffer = None
          => /\ parser'.out # <<>>
             /\ parser'.out[Len(parser'.out)] = <<"EnterKey">>
             /\ parser'.pending = <<>>
       /\ Feeds /\ FedByte = LF /\ AfterEnterCR
          => /\ parser'.out = parser.out
             /\ parser'.pending = <<>>
       /\ Feeds /\ FedByte \in OrdinaryBytes /\ AfterEnterCR
          => /\ parser'.out = parser.out
             /\ parser'.pending = <<FedByte>>
       /\ step'.kind = "flush_pending" /\ parser.esc_buffer = None
          /\ parser.pending # <<>>
          => /\ parser'.out = Append(parser.out, <<"Bytes", parser.pending>>)
             /\ parser'.pending = <<>>]_vars

\* Pending bytes, CR and LF were fed and gave one Bytes event and one
\* EnterKey.
C21_Witness ==
    /\ step.kind = "consume_bytes"
    /\ Stream = <<"x", CR, LF>>
    /\ parser.out = << <<"Bytes", <<"x">> >>, <<"EnterKey">> >>
    /\ parser.pending = <<>>

\* A CSI sequence is in progress: the escape buffer holds ESC [ and what
\* followed.
InCsi ==
    /\ parser.esc_buffer # None
    /\ Len(parser.esc_buffer[1]) >= 2
    /\ parser.esc_buffer[1][1] = ESC
    /\ parser.esc_buffer[1][2] = "["

\* The bytes 0x40..0x7e among the bytes fed.
FinalBytes == {"[", "u", "x"}

\* Only digits and semicolons follow ESC [ in the escape buffer.
OnlyParameters ==
    \A i \in 3..Len(parser.esc_buffer[1]) :
        parser.esc_buffer[1][i] \in {"0", "4", "8", ";"}

----------------------------------------------------------------------------
(* SpecRead: the loop of the input thread, one whole read at a time: the   *)
(* bytes of the read are consumed and the pending bytes flushed.  step     *)
(* holds the reads made so far.                                            *)

MaxReads == 2

\* The batch 'a', ESC [ 4 8 ; 0 ; 0 u, 'b'.
CsiUBatch == <<"a", ESC, "[", "4", "8", ";", "0", ";", "0", "u", "b">>

\* What a read of stdin can return: the batch above, and every batch of one
\* or two bytes of a small alphabet.
ReadBatches ==
    {CsiUBatch}
    \cup { <<b>> : b \in {"a", ESC, "[", "u", CR, LF} }
    \cup { <<b, c>> : b \in {"a", ESC, "[", "u", CR, LF},
                      c \in {"a", ESC, "[", "u", CR, LF} }

ReadInit ==
    HarnessInit(VmScope, {"Auto"},
                {[whisper_model_path |-> TRUE, no_python_fallback |-> FALSE]})

\* The reads made so far.
Reads == IF step.kind = "new" THEN <<>> ELSE step.detail

\* Lines 839-849: one read, consume_bytes and flush_pending.
PsRead ==
    /\ InHarness
    /\ Len(Reads) < MaxReads
    /\ \E bytes \in ReadBatches :
         /\ parser' = flush_pending(consume_bytes(parser, bytes))
         /\ step' = StepRec("read", Append(Reads, bytes))
    /\ PsUnchanged

SpecRead == ReadInit /\ [][PsRead]_vars

\* C23, as amended: the batch 'a', ESC [ 4 8 ; 0 ; 0 u, 'b' read by a fresh
\* decoder yields the single event Bytes("ab"): the dropped sequence does
\* not separate the bytes around it.
C23_CsiUFilteredBatch ==
    step.kind = "read" /\ step.detail = <<CsiUBatch>>
    => parser.out = << <<"Bytes", <<"a", "b">> >> >>

\* C23: the batch 'a', ESC [ 4 8 ; 0 ; 0 u, 'b' read by a fresh decoder
\* yields the two events Bytes("a") and Bytes("b").
C23_CsiUSplitsBytes ==
    step.kind = "read" /\ step.detail = <<CsiUBatch>>
    => parser.out = << <<"Bytes", <<"a">> >>, <<"Bytes", <<"b">> >> >>

\* The batch was read by a fresh decoder and nothing is left in it.
C23_Witness ==
    /\ step.kind = "read"
    /\ step.detail = <<CsiUBatch>>
    /\ parser.pending = <<>>
    /\ parser.esc_buffer = None
    /\ Len(parser.out) = 1

----------------------------------------------------------------------------
(* SpecSensitivity: adjust_sensitivity called with any of a set of deltas, *)
(* from any configured threshold.                                          *)

\* The thresholds a configuration can hold at the start, inside and outside
\* the range of the clamp.
InitialThresholds == {-120, -80, -57, -40, -10, 0}

\* The deltas of the calls: the steps of the two sensitivity keys (lines
\* 280, 291), a single dB, the +-1000 of the test (lines 2128-2129) and the
\* two infinities.
SensitivityDeltas ==
    { F32(d) : d \in {-1000, -5, -1, 1, 5, 1000} }
    \cup {F32_INFINITY, F32_NEG_INFINITY}

SensitivityInit ==
    HarnessInit(VmScope, {"Auto"},
                { [whisper_model_path |-> TRUE, no_python_fallback |-> FALSE,
                   voice_vad_threshold_db |-> F32(t)] : t \in InitialThresholds })

VmAdjust ==
    /\ InHarness
    /\ \E delta_db \in SensitivityDeltas :
         LET r == adjust_sensitivity(voice_manager, delta_db)
         IN  /\ voice_manager' = r.vm
             /\ step' = StepRec("adjust_sensitivity",
                    [ret |-> r.ret,
                     previous |-> voice_manager.config.voice_vad_threshold_db,
                     delta_db |-> delta_db])
    /\ VmUnchanged

SpecSensitivity == SensitivityInit /\ [][VmAdjust]_vars

\* clamp(previous + delta, -80, -10) over the numbers, with an infinite
\* delta taken as larger than any number.
ClampedSum(previous, delta) ==
    IF delta.k = "inf" THEN (IF delta.v > 0 THEN -10 ELSE -80)
    ELSE IF previous.v + delta.v < -80 THEN -80
    ELSE IF previous.v + delta.v > -10 THEN -10
    ELSE previous.v + delta.v

\* C24: after a call of adjust_sensitivity the stored threshold is a number
\* in [-80, -10], it is the value the call returned, and that value is
\* clamp(previous + delta, -80, -10); a delta of +1000 or +infinity returns
\* exactly -10 and a delta of -1000 or -infinity exactly -80.
C24_SensitivityClamp ==
    step.kind = "adjust_sensitivity"
    => /\ voice_manager.config.voice_vad_threshold_db = step.detail.ret
       /\ step.detail.ret.k = "fin"
       /\ step.detail.ret.v >= -80
       /\ step.detail.ret.v <= -10
       /\ step.detail.ret.v = ClampedSum(step.detail.previous, step.detail.delta_db)
       /\ step.detail.delta_db \in {F32(1000), F32_INFINITY}
          => step.detail.ret.v = -10
       /\ step.detail.delta_db \in {F32(-1000), F32_NEG_INFINITY}
          => step.detail.ret.v = -80

\* From a threshold inside the range, a step of the sensitivity key was
\* clamped at the upper limit.
C24_Witness ==
    /\ step.kind = "adjust_sensitivity"
    /\ step.detail.previous = F32(-11)
    /\ step.detail.delta_db = F32(5)
    /\ voice_manager.config.voice_vad_threshold_db = F32(-10)
----------------------------------------------------------------------------
(* SpecPrompt: a PromptTracker, with or without a configured regex, fed    *)
(* PTY output and asked on_idle at the instants of a session.              *)

MaxPromptTime == 3
MaxLineLen == 3

\* The idle timeouts on_idle is called with.
IdleTimeouts == {1, 2}

\* A partial prompt line, a completed line the regex matches, a completed
\* line that is no prompt, a blank partial line and a carriage return.
PromptScope ==
    [status |-> FALSE,
     texts |-> {},
     sources |-> {"Native"},
     frames |-> {0},
     chunks |-> { <<"x", ">", SP>>, <<">", LF>>, <<"x", LF>>, <<SP>>, <<CR>> }]

\* PromptTracker::new, called with no regex or with the regex ^>$.
TrackerInit(sc) ==
    /\ scope = sc
    /\ clock = 0
    /\ voice_send_mode = "Auto"
    /\ auto_voice_enabled = FALSE
    /\ last_auto_trigger_at = None
    /\ last_enter_at = None
    /\ pending_transcripts = <<>>
    /\ status_clear_deadline = None
    /\ current_status = None
    /\ \E regex \in {None, Some(<<">">>)} :
         prompt_tracker = PromptTracker_new(regex, 0)
    /\ voice_manager = VoiceManager_new(
           [whisper_model_path |-> TRUE, no_python_fallback |-> FALSE])
    /\ running = TRUE
    /\ writer = WriterThread_new(0)
    /\ parser = InputParser_new
    /\ sigwinch_received = FALSE
    /\ pc = "call"
    /\ pty_out = <<>>
    /\ writer_out = <<>>
    /\ step = StepRec("new", "")

PromptInit == TrackerInit(PromptScope)

PtUnchanged ==
    UNCHANGED <<voice_send_mode, auto_voice_enabled, last_auto_trigger_at,
                last_enter_at, pending_transcripts, status_clear_deadline,
                current_status, voice_manager, running, pc, pty_out, writer_out,
                writer, parser, sigwinch_received, scope>>

\* What a call of the tracker was given and the tracker it was called on.
PromptCall(now, idle_timeout) ==
    [now |-> now, idle_timeout |-> idle_timeout, before |-> prompt_tracker]

\* The instants of the next call: the present one or one unit later.
CallTimes == { now \in clock..(clock + 1) : now <= MaxPromptTime }

\* feed_output(data), whose Instant::now() returns now.
PtFeed ==
    /\ \E data \in scope.chunks, now \in CallTimes :
         /\ Len(prompt_tracker.current_line) + Len(data) <= MaxLineLen
         /\ prompt_tracker' = feed_output(prompt_tracker, data, now)
         /\ step' = StepRec("feed_output", PromptCall(now, 0))
         /\ clock' = now
    /\ PtUnchanged

\* on_idle(now, idle_timeout).
PtIdle ==
    /\ \E idle_timeout \in IdleTimeouts, now \in CallTimes :
         /\ prompt_tracker' = on_idle(prompt_tracker, now, idle_timeout)
         /\ step' = StepRec("on_idle", PromptCall(now, idle_timeout))
         /\ clock' = now
    /\ PtUnchanged

\* note_activity(now).
PtActivity ==
    /\ \E now \in CallTimes :
         /\ prompt_tracker' = note_activity(prompt_tracker, now)
         /\ step' = StepRec("note_activity", PromptCall(now, 0))
         /\ clock' = now
    /\ PtUnchanged

PromptNext ==
    \/ PtFeed
    \/ PtIdle
    \/ PtActivity

SpecPrompt == PromptInit /\ [][PromptNext]_vars

\* The candidate of on_idle: the current partial line if it is not empty,
\* else the last completed line, if any.
IdleCandidate(t) ==
    IF t.current_line # <<>> THEN Some(t.current_line) ELSE t.last_line

\* C25: learned_prompt is assigned at most once, only without a regex, only by
\* on_idle once output has been seen and now - last_output_at >= idle_timeout,
\* and only to the candidate (the non-empty partial line, else the last
\* completed line), which passes looks_like_prompt; that step sets
\* last_prompt_seen_at to now. With a regex learned_prompt stays unset, and
\* on_idle sets last_prompt_seen_at only when the candidate matches the regex.
C25_PromptLearning ==
    [][LET t == prompt_tracker
           call == step'.detail
       IN  /\ prompt_tracker'.learned_prompt # t.learned_prompt =>
                /\ t.learned_prompt = None
                /\ t.regex = None
                /\ step'.kind = "on_idle"
                /\ t.has_seen_output
                /\ call.now - t.last_output_at >= call.idle_timeout
                /\ IdleCandidate(t) # None
                /\ prompt_tracker'.learned_prompt = IdleCandidate(t)
                /\ looks_like_prompt(Unwrap(IdleCandidate(t)))
                /\ prompt_tracker'.last_prompt_seen_at = Some(call.now)
           /\ t.regex # None => prompt_tracker'.learned_prompt = None
           /\ ( /\ step'.kind = "on_idle"
                /\ t.regex # None
                /\ prompt_tracker'.last_prompt_seen_at # t.last_prompt_seen_at )
              => /\ IdleCandidate(t) # None
                 /\ regex_is_match(Unwrap(t.regex), Unwrap(IdleCandidate(t)))
                 /\ prompt_tracker'.last_prompt_seen_at = Some(call.now)
      ]_vars

\* on_idle has just learned the last completed line as the prompt, the partial
\* line being empty.
C25_Witness ==
    /\ step.kind = "on_idle"
    /\ step.detail.before.learned_prompt = None
    /\ step.detail.before.current_line = <<>>
    /\ prompt_tracker.regex = None
    /\ prompt_tracker.learned_prompt = step.detail.before.last_line
    /\ prompt_tracker.learned_prompt # None
    /\ prompt_tracker.last_prompt_seen_at = Some(clock)
----------------------------------------------------------------------------
(* Insert-mode re-arm, under SpecAuto *)

\* The message the tick of this step polled, if any.
PolledMessage == poll_message(voice_manager).ret

\* This step was a tick, and it handled an arriving Transcript.
TranscriptTick ==
    /\ AtTick
    /\ IsSome(PolledMessage)
    /\ Unwrap(PolledMessage).type = "Transcript"

\* This step emptied a queue that held transcripts.
QueueDrained == pending_transcripts # <<>> /\ pending_transcripts' = <<>>

\* The voice manager was idle when this step came to the queue: a tick has
\* polled by then, any other step leaves the manager as it was.
IdleAtDrain ==
    IF AtTick THEN is_idle(poll_message(voice_manager).vm)
    ELSE is_idle(voice_manager)

\* This step was a tick that started a fresh capture and recorded its now.
CaptureRearmed ==
    /\ voice_manager'.job = Some(start_voice_job)
    /\ step'.kind = "tick"
    /\ last_auto_trigger_at' = Some(step'.detail.now)

\* C26 as stated: in insert mode with auto-voice on, a step that leaves the
\* queue empty with the manager idle, be it the tick that delivers an arriving
\* transcript or a later step whose flush drains the queue, starts an Auto
\* capture and records last_auto_trigger_at.
C26_RearmOnEveryDrain ==
    [][( /\ auto_voice_enabled
         /\ voice_send_mode = "Insert"
         /\ IdleAtDrain
         /\ \/ TranscriptTick /\ pending_transcripts' = <<>>
            \/ QueueDrained )
       => CaptureRearmed]_vars

\* C26, amended: in insert mode with auto-voice on, the tick that handles an
\* arriving Transcript and leaves the queue empty (by direct delivery, or by
\* the flush that follows the enqueue) starts an Auto capture in that step and
\* records last_auto_trigger_at = now.
C26_RearmOnTranscript ==
    [][( /\ auto_voice_enabled
         /\ voice_send_mode = "Insert"
         /\ TranscriptTick
         /\ pending_transcripts' = <<>> )
       => CaptureRearmed]_vars

\* A tick has delivered an arriving transcript in insert mode and re-armed.
C26_Witness ==
    /\ auto_voice_enabled
    /\ voice_send_mode = "Insert"
    /\ step.kind = "tick"
    /\ pty_out = << <<"h">> >>
    /\ pending_transcripts = <<>>
    /\ voice_manager.job = Some(start_voice_job)
    /\ last_auto_trigger_at = Some(step.detail.now)
    /\ step.detail.last = Some(step.detail.now)
    /\ ~step.detail.idle
----------------------------------------------------------------------------
(* Status expiry, under SpecTraffic *)

\* This step was a tick whose expiry check found the deadline passed: only
\* that check of a tick sends ClearStatus.
DeadlineExpired ==
    /\ Tick
    /\ \E i \in 1..Len(writer_out') : writer_out'[i] = <<"ClearStatus">>

\* The step ends with "Auto-voice enabled" sent as the status, held as the
\* current status with no clear deadline.
AutoStatusReasserted ==
    /\ writer_out' # <<>>
    /\ writer_out'[Len(writer_out')] = <<"Status", Plain("Auto-voice enabled")>>
    /\ current_status' = Some(Plain("Auto-voice enabled"))
    /\ status_clear_deadline' = None

\* C27: whenever a status-clear deadline expires while auto-voice is enabled,
\* ClearStatus is followed by the re-asserted status "Auto-voice enabled" with
\* no clear deadline: the status is not left blank.
C27_ExpiryReasserts ==
    [][(auto_voice_enabled /\ DeadlineExpired) => AutoStatusReasserted]_vars
----------------------------------------------------------------------------
(* SpecToggle: the coordinator with the auto-voice toggle, the manual voice *)
(* trigger, the tick and the voice worker; the status line is observed.     *)

ToggleScope ==
    [status |-> TRUE,
     horizon |-> MaxLoopTime,
     texts |-> { <<"h">> },
     sources |-> {"Native"},
     frames |-> {0},
     chunks |-> {},
     waits |-> SendWaits]

\* Every voice configuration: a capture may fail to start.
ToggleInit == MainInit(ToggleScope, {Some(<<">">>)}, VoiceConfigs)

ToggleNext ==
    \/ Startup
    \/ ToggleAutoVoice
    \/ VoiceTrigger
    \/ Tick
    \/ WorkerSend
    \/ WorkerDie

SpecToggle == ToggleInit /\ [][ToggleNext]_vars

\* This step handled ToggleAutoVoice: no other step changes the flag.
Toggled == auto_voice_enabled' # auto_voice_enabled

\* Whatever the worker of the capture reports last, the poll that takes it
\* returns no message.
FinalMessageDiscarded(vm) ==
    \A message \in WorkerMessages :
        poll_message([vm EXCEPT !.job = Some([Unwrap(@) EXCEPT
                                                  !.chan = Some(message),
                                                  !.alive = FALSE])]).ret = None

\* Toggling off: a running capture is cancelled and a status with the short
\* clear deadline is set.  The deadline is counted from the instant at which
\* the send of the status returned (line 1062), where the handler ends.
ToggledOff ==
    /\ IsSome(voice_manager.job) =>
         /\ IsSome(voice_manager'.job)
         /\ Unwrap(voice_manager'.job).stop_flag
         /\ voice_manager'.cancel_pending
         /\ FinalMessageDiscarded(voice_manager')
    /\ current_status' = Some(Plain(IF IsSome(voice_manager.job)
                                    THEN "Auto-voice disabled (capture cancelled)"
                                    ELSE "Auto-voice disabled"))
    /\ status_clear_deadline' = Some(clock' + ClearAfterShort)

\* Toggling on: "Auto-voice enabled" is sent first and the status left has no
\* clear deadline.
StickyStatusSet ==
    /\ writer_out' # <<>>
    /\ writer_out'[1] = <<"Status", Plain("Auto-voice enabled")>>
    /\ current_status' # None
    /\ status_clear_deadline' = None

\* The step started a fresh capture and recorded the instant at which the
\* start returned (line 258), where the handler ends.
AutoCaptureStarted ==
    /\ voice_manager'.job = Some(start_voice_job)
    /\ last_auto_trigger_at' = Some(clock')

\* The start failed: no capture runs and the last trigger is as it was.
AutoCaptureFailed ==
    /\ is_idle(voice_manager')
    /\ last_auto_trigger_at' = last_auto_trigger_at

\* A start on this manager cannot fail: python fallback is allowed, and the
\* transcriber is loaded or none is configured.
StartCannotFail(vm) ==
    /\ ~vm.config.no_python_fallback
    /\ vm.transcriber \/ ~vm.config.whisper_model_path

\* No step sends the status of a started Auto capture.
NoAutoCaptureStatus ==
    \A i \in 1..Len(writer_out') :
        writer_out'[i][1] = "Status" => writer_out'[i][2][1] # "Listening Auto Mode"

\* C28 as stated: toggling flips the flag; off cancels a running capture and
\* sets a status with the 2-second deadline; on sets a sticky status and, with
\* the manager idle, starts an Auto capture in that step and records
\* last_auto_trigger_at; while disabled no Auto capture is started.
C28_ToggleAlwaysStarts ==
    [][/\ (Toggled /\ ~auto_voice_enabled') => ToggledOff
       /\ (Toggled /\ auto_voice_enabled') =>
            /\ StickyStatusSet
            /\ is_idle(voice_manager) => AutoCaptureStarted
       /\ ~auto_voice_enabled' => NoAutoCaptureStatus]_vars

\* C28, amended: as stated, except that toggling on with the manager idle
\* starts the Auto capture and records last_auto_trigger_at unless the start
\* fails, in which case no capture runs and last_auto_trigger_at is unchanged;
\* the start does not fail where python fallback is allowed and the
\* transcriber is loaded or not configured.
C28_AutoVoiceToggle ==
    [][/\ (Toggled /\ ~auto_voice_enabled') => ToggledOff
       /\ (Toggled /\ auto_voice_enabled') =>
            /\ StickyStatusSet
            /\ is_idle(voice_manager) =>
                 /\ AutoCaptureStarted \/ AutoCaptureFailed
                 /\ StartCannotFail(voice_manager) => AutoCaptureStarted
       /\ ~auto_voice_enabled' => NoAutoCaptureStatus]_vars

\* Auto-voice has just been toggled off during a capture, which is cancelled.
C28_Witness ==
    /\ ~auto_voice_enabled
    /\ current_status = Some(Plain("Auto-voice disabled (capture cancelled)"))
    /\ status_clear_deadline = Some(clock + ClearAfterShort)
    /\ IsSome(voice_manager.job)
    /\ voice_manager.cancel_pending
----------------------------------------------------------------------------
(* SpecOutcome: the coordinator under captures that end with a Transcript,  *)
(* an Empty or an Error, auto-voice on or off from the start, a forwarded   *)
(* Enter and queued transcripts; the status line is observed, and each tick *)
(* keeps what it polled and the locals as lines 381-506 left them.          *)

MaxOutcomeTime == 4

OutcomeScope ==
    [status |-> TRUE,
     horizon |-> MaxOutcomeTime,
     texts |-> { <<"h">> },
     sources |-> {"Native"},
     frames |-> {0},
     chunks |-> { <<CR, ">", LF, "x">> },
     waits |-> SendWaits]

OutcomeInit ==
    MainInit(OutcomeScope, {Some(<<">">>)},
             {[whisper_model_path |-> TRUE, no_python_fallback |-> FALSE]})

\* The messages of a capture that produced no transcript: the worker's Empty
\* or Error, and the Error the poll makes up when the worker has gone.
RecoverableMessages ==
    { message \in WorkerMessages : message.type \in {"Empty", "Error"} }
    \cup { ErrorMsg("voice capture worker disconnected unexpectedly") }

\* Lines 341-369: PTY output, with a PTY and a writer that take every write.
OcOutput ==
    /\ InLoop
    /\ \E now \in SelectWindow, waits \in scope.waits, data \in scope.chunks :
         LET r == pty_output(Began(now, waits), data, TRUE, TRUE)
         IN  /\ Ended(r.s)
             /\ Commit(r.s)
    /\ step' = StepRec("output", "")
    /\ UNCHANGED <<voice_send_mode, auto_voice_enabled, running, pc>>

\* Lines 381-506 of a tick whose now is now: the poll, and the locals after
\* the polled message has been handled, which was at the instant done.
Handled(s, now, pty_ok, env) ==
    LET p == poll_message(s.voice_manager)
        s1 == [s EXCEPT !.voice_manager = p.vm]
        s2 == IF IsSome(p.ret) THEN on_message(s1, Unwrap(p.ret), now, pty_ok, env)
              ELSE s1
    IN  [polled |-> p.ret,
         now |-> now,
         done |-> s2.t,
         pty_out |-> s2.pty_out,
         pending_transcripts |-> s2.pending_transcripts,
         last_enter_at |-> s2.last_enter_at,
         current_status |-> s2.current_status,
         status_clear_deadline |-> s2.status_clear_deadline,
         last_output_at |-> s2.prompt_tracker.last_output_at,
         has_seen_output |-> s2.prompt_tracker.has_seen_output]

\* Lines 370-563: a tick; step keeps what lines 381-506 did.  No SIGWINCH
\* arrives, so the tick reads no terminal size.
OcTick ==
    /\ InLoop
    /\ \E at \in TimeoutWindow, waits \in scope.waits, pty_ok \in BOOLEAN,
          flush_ok \in BOOLEAN, env \in StartEnvs :
         LET sw == AtomicBool_swap(sigwinch_received, FALSE)
             s0 == tick_resize(Began(at, waits), sw.ret, None)
             s == default_arm(Began(at, waits), sw.ret, None, None, pty_ok, flush_ok, env)
         IN  /\ sigwinch_received' = sw.flag
             /\ Ended(s)
             /\ CommitLocals(s)
             /\ writer' = writer
             /\ step' = StepRec("tick",
                                Handled(tick_begin(s0, s0.t), s0.t, pty_ok, env))
    /\ UNCHANGED <<voice_send_mode, auto_voice_enabled, running, pc>>

OutcomeNext ==
    \/ Startup
    \/ EnterKey
    \/ OcOutput
    \/ VoiceTrigger
    \/ WorkerSend
    \/ WorkerDie
    \/ OcTick

SpecOutcome == OutcomeInit /\ [][OutcomeNext]_vars

\* The tick of this step polled an Empty or an Error.
PolledRecoverable ==
    /\ OcTick
    /\ IsSome(step'.detail.polled)
    /\ Unwrap(step'.detail.polled) \in RecoverableMessages

\* The status the message handling of this step set has a clear deadline, the
\* short clear time after the send of the status returned.
StatusWithShortDeadline ==
    /\ step'.detail.current_status # None
    /\ step'.detail.status_clear_deadline =
           Some(step'.detail.done + ClearAfterShort)

\* C29: handling a polled Empty or Error writes nothing to the PTY, leaves the
\* pending queue and last_enter_at as they were, keeps the loop running and
\* sets a status with the 2-second clear deadline; with auto-voice on it notes
\* the moment as activity.
C29_RecoverableOutcome ==
    [][PolledRecoverable =>
         /\ step'.detail.pty_out = <<>>
         /\ step'.detail.pending_transcripts = pending_transcripts
         /\ step'.detail.last_enter_at = last_enter_at
         /\ running'
         /\ StatusWithShortDeadline
         /\ auto_voice_enabled =>
              /\ step'.detail.last_output_at = step'.detail.now
              /\ step'.detail.has_seen_output
      ]_vars
----------------------------------------------------------------------------
(* Worker disconnect, under SpecVM *)

\* The channel of the active job holds no message.
ChannelEmpty ==
    /\ voice_manager.job # None
    /\ voice_manager.job[1].chan = None

\* C30: a poll that finds the worker gone with no message drops the job,
\* clears active_source and cancel_pending, and returns the synthesized Error
\* if the capture was not cancelled and None if it was; a poll that finds the
\* channel merely empty, the worker still there, returns None and changes
\* nothing.
C30_WorkerDisconnect ==
    /\ [][VmPoll /\ ChannelEmpty /\ ~voice_manager.job[1].alive =>
            /\ voice_manager'.job = None
            /\ voice_manager'.active_source = None
            /\ ~voice_manager'.cancel_pending
            /\ voice_manager'.recorder = voice_manager.recorder
            /\ voice_manager'.transcriber = voice_manager.transcriber
            /\ step'.detail.ret =
                 IF voice_manager.cancel_pending THEN None
                 ELSE Some(ErrorMsg("voice capture worker disconnected unexpectedly"))
       ]_vars
    /\ [][VmPoll /\ ChannelEmpty /\ voice_manager.job[1].alive =>
            /\ step'.detail.ret = None
            /\ voice_manager' = voice_manager]_vars

\* A poll found the worker of a capture that was not cancelled gone, returned
\* the synthesized Error and left the manager idle.
C30_Witness ==
    /\ step.kind = "poll_message"
    /\ ~step.detail.cancelled
    /\ step.detail.ended
    /\ step.detail.ret =
         Some(ErrorMsg("voice capture worker disconnected unexpectedly"))
    /\ voice_manager.job = None
    /\ voice_manager.active_source = None
    /\ ~voice_manager.cancel_pending
----------------------------------------------------------------------------
(* SpecResize: the coordinator's ticks and the SIGWINCH handler, which may  *)
(* run between any two steps of main; the status line is observed.          *)

MaxResizeTime == 4

ResizeScope ==
    [status |-> TRUE,
     horizon |-> MaxResizeTime,
     texts |-> { <<"h">> },
     sources |-> {"Native"},
     frames |-> {0},
     chunks |-> { <<"x", LF>> },
     waits |-> SendWaits]

ResizeInit ==
    MainInit(ResizeScope, {Some(<<">">>)},
             {[whisper_model_path |-> TRUE, no_python_fallback |-> FALSE]})

\* Lines 28-30: handle_sigwinch.
RzSignal ==
    /\ sigwinch_received' = TRUE
    /\ step' = StepRec("handle_sigwinch", sigwinch_received)
    /\ UNCHANGED <<clock, voice_send_mode, auto_voice_enabled, last_auto_trigger_at,
                   last_enter_at, pending_transcripts, status_clear_deadline,
                   current_status, prompt_tracker, voice_manager, running, pc,
                   pty_out, writer_out, writer, parser, scope>>

\* Lines 370-563: a tick; it begins with the swap of the flag.  The PTY takes
\* what is written.
RzTick ==
    /\ InLoop
    /\ \E at \in TimeoutWindow, waits \in scope.waits, env \in StartEnvs,
          size \in SizesRead(sigwinch_received) :
         \E moved \in WorkerMoves(
                 tick_resize(Began(at, waits),
                             AtomicBool_swap(sigwinch_received, FALSE).ret, size), at) :
         LET sw == AtomicBool_swap(sigwinch_received, FALSE)
             s == default_arm(Began(at, waits), sw.ret, size, moved, TRUE, TRUE, env)
         IN  /\ sigwinch_received' = sw.flag
             /\ Ended(s)
             /\ CommitLocals(s)
             /\ writer' = writer
             /\ step' = StepRec("tick", [signalled |-> sw.ret, size |-> size])
    /\ UNCHANGED <<voice_send_mode, auto_voice_enabled, running, pc>>

ResizeNext ==
    \/ Startup
    \/ RzSignal
    \/ RzTick
    \/ AtOutput
    \/ WorkerSend
    \/ WorkerDie

SpecResize == ResizeInit /\ [][ResizeNext]_vars

\* The Resize messages this step sent to the writer.
ResizesSent ==
    { i \in 1..Len(writer_out') : writer_out'[i][1] = "Resize" }

\* The signal handler sets the flag and touches nothing else.
HandlerOnlySetsFlag ==
    RzSignal => /\ sigwinch_received'
                /\ UNCHANGED <<clock, last_auto_trigger_at, last_enter_at,
                               pending_transcripts, status_clear_deadline,
                               current_status, prompt_tracker, voice_manager,
                               running, pty_out, writer_out, writer>>

\* A raised flag stays raised until a tick reads it.
FlagKeptUntilTick == (sigwinch_received /\ ~RzTick) => sigwinch_received'

\* C31 as stated: the handler only sets the flag; a tick reads and clears it
\* and, if it was set, forwards one Resize, however many signals were raised
\* since the last tick, and none otherwise; a raised flag is never lost: it
\* stays until the tick that reads it.
C31_ResizePerSignalledTick ==
    [][/\ HandlerOnlySetsFlag
       /\ FlagKeptUntilTick
       /\ RzTick => /\ ~sigwinch_received'
                    /\ Cardinality(ResizesSent) =
                           IF sigwinch_received THEN 1 ELSE 0]_vars

\* C31, amended: as stated, except that the tick that finds the flag set
\* forwards one Resize, of the size read, only if the terminal size can be
\* read; if it cannot, the flag is cleared all the same and no Resize is sent.
C31_SigwinchHandling ==
    [][/\ HandlerOnlySetsFlag
       /\ FlagKeptUntilTick
       /\ RzTick =>
            /\ ~sigwinch_received'
            /\ IF sigwinch_received /\ IsSome(step'.detail.size)
               THEN /\ Cardinality(ResizesSent) = 1
                    /\ writer_out'[1] = <<"Resize", Unwrap(step'.detail.size).rows,
                                          Unwrap(step'.detail.size).cols>>
               ELSE ResizesSent = {}]_vars

\* A tick has found the flag set, forwarded one Resize first of all and
\* cleared the flag.
C31_Witness ==
    /\ step.kind = "tick"
    /\ step.detail.signalled
    /\ ~sigwinch_received
    /\ writer_out # <<>>
    /\ writer_out[1] = <<"Resize", 2, 3>>
    /\ \A i \in 2..Len(writer_out) : writer_out[i][1] # "Resize"
----------------------------------------------------------------------------
(* SpecBusy: the coordinator with auto-voice off, under PTY output, Enter,  *)
(* manual captures and the tick; step.detail keeps whether the child has    *)
(* been silent since the last submit key written to the PTY.                *)

MaxBusyTime == 3

\* A prompt line and a line that is no prompt.
BusyScope ==
    [status |-> FALSE,
     horizon |-> MaxBusyTime,
     texts |-> { <<"h">> },
     sources |-> {"Native"},
     frames |-> {0},
     chunks |-> { <<CR, ">", LF>>, <<"x", LF>> },
     waits |-> SendWaits]

BusyInit ==
    /\ MainInit(BusyScope, {Some(<<">">>)}, DeliverConfigs)
    /\ ~auto_voice_enabled

\* Some write of the step ended with the submit key.
Submits(written) ==
    \E i \in 1..Len(written) :
        written[i] # <<>> /\ written[i][Len(written[i])] = CR

\* Some write of the step carried transcript text.
TextWritten(written) ==
    \E i \in 1..Len(written) :
        written[i] # WriteFailed /\ \E k \in 1..Len(written[i]) : written[i][k] # CR

\* No PTY output has arrived since the last submit key was written.
QuietSinceSubmit == step.kind # "main" /\ step.detail

\* Lines 301-332: the user's Enter.
BzEnter ==
    /\ InLoop
    /\ \E now \in SelectWindow, waits \in scope.waits, pty_ok \in BOOLEAN :
         LET r == enter_key(Began(now, waits), pty_ok)
         IN  /\ Ended(r.s)
             /\ Commit(r.s)
             /\ running' = r.running
             /\ step' = StepRec("enter", Submits(r.s.pty_out) \/ QuietSinceSubmit)
    /\ UNCHANGED <<voice_send_mode, auto_voice_enabled, pc>>

\* Lines 341-369: PTY output is fed to the tracker and the queue flushed; the
\* PTY and the writer take what is sent to them.
BzOutput ==
    /\ InLoop
    /\ \E now \in SelectWindow, waits \in scope.waits, data \in scope.chunks :
         LET r == pty_output(Began(now, waits), data, TRUE, TRUE)
         IN  /\ Ended(r.s)
             /\ Commit(r.s)
             /\ step' = StepRec("output", Submits(r.s.pty_out))
    /\ UNCHANGED <<voice_send_mode, auto_voice_enabled, running, pc>>

\* Lines 370-563: a tick; the PTY takes what is written.
BzTick ==
    /\ InLoop
    /\ \E at \in TimeoutWindow, waits \in scope.waits, env \in StartEnvs,
          size \in SizesRead(sigwinch_received) :
         \E moved \in WorkerMoves(
                 tick_resize(Began(at, waits),
                             AtomicBool_swap(sigwinch_received, FALSE).ret, size), at) :
         LET sw == AtomicBool_swap(sigwinch_received, FALSE)
             s == default_arm(Began(at, waits), sw.ret, size, moved, TRUE, TRUE, env)
         IN  /\ sigwinch_received' = sw.flag
             /\ Ended(s)
             /\ CommitLocals(s)
             /\ writer' = writer
             /\ step' = StepRec("tick", Submits(s.pty_out) \/ QuietSinceSubmit)
    /\ UNCHANGED <<voice_send_mode, auto_voice_enabled, running, pc>>

BusyNext ==
    \/ Startup
    \/ VoiceTrigger
    \/ WorkerSend
    \/ BzEnter
    \/ BzOutput
    \/ BzTick

SpecBusy == BusyInit /\ [][BusyNext]_vars

\* C32 as stated: once a prompt has been detected, after a submit key has been
\* written the coordinator writes no transcript text until the child has
\* produced new PTY output: a tick that finds the child silent since the last
\* submit writes no transcript text.
C32_NoDeliveryWithoutOutput ==
    [][(BzTick /\ QuietSinceSubmit /\ prompt_tracker.last_prompt_seen_at # None)
       => ~TextWritten(pty_out')]_vars

\* C32, amended: once a prompt has been detected, after a submit key has been
\* written the coordinator writes no transcript text until a prompt has been
\* detected again after that submit, in new PTY output or by the idle
\* re-match of a tick; within a step no transcript text follows a submit.
C32_NoDeliveryBeforePrompt ==
    [][prompt_tracker.last_prompt_seen_at # None =>
         /\ (last_enter_at # None /\ TextWritten(pty_out')) =>
               Unwrap(prompt_tracker'.last_prompt_seen_at) > Unwrap(last_enter_at)
         /\ \A i \in 1..Len(pty_out') : \A j \in (i + 1)..Len(pty_out') :
               Submits(<<pty_out'[i]>>) => ~TextWritten(<<pty_out'[j]>>)
      ]_vars

\* A tick has delivered a transcript although the child has been silent since
\* the user's Enter: the tick's idle re-match detected the prompt anew.
C32_Witness ==
    /\ step.kind = "tick"
    /\ step.detail
    /\ voice_send_mode = "Insert"
    /\ TextWritten(pty_out)
    /\ last_enter_at # None
    /\ prompt_tracker.last_output_at <= Unwrap(last_enter_at)
    /\ prompt_tracker.last_prompt_seen_at = Some(clock)
    /\ clock > Unwrap(last_enter_at)
----------------------------------------------------------------------------
(* SpecFifo: the coordinator with auto-voice off, under PTY output, Enter,  *)
(* the send-mode toggle, manual captures and the tick, with transcripts of  *)
(* one letter each, so that the order of the letters is the order of the    *)
(* transcripts.                                                             *)

MaxFifoTime == 4
\* The send mode is toggled before this instant only.
MaxToggleTime == 3

FifoScope ==
    [status |-> FALSE,
     horizon |-> MaxFifoTime,
     texts |-> { <<"a">>, <<SP, "b">>, <<SP>> },
     sources |-> {"Native"},
     frames |-> {0},
     chunks |-> { <<CR, ">", LF>>, <<"x", LF>> },
     waits |-> SendWaits]

FifoInit ==
    /\ MainInit(FifoScope, {Some(<<">">>)}, DeliverConfigs)
    /\ ~auto_voice_enabled

\* The letters of a text: what is neither blank nor the submit key.
Letters(text) == SelectSeq(text, LAMBDA c : c \notin {SP, CR})

RECURSIVE LettersWritten(_)
\* The letters the writes of a step carried to the PTY, in order of writing.
LettersWritten(written) ==
    IF written = <<>> THEN <<>>
    ELSE (IF Head(written) = WriteFailed THEN <<>> ELSE Letters(Head(written)))
             \o LettersWritten(Tail(written))

RECURSIVE LettersQueued(_)
\* The letters of the queued transcripts, oldest first.
LettersQueued(pending) ==
    IF pending = <<>> THEN <<>>
    ELSE Letters(Head(pending).text) \o LettersQueued(Tail(pending))

\* The text of the capture that ends at the instant now.
TextAt(now) ==
    IF now % 3 = 0 THEN <<"a">> ELSE IF now % 3 = 2 THEN <<SP, "b">> ELSE <<SP>>

\* The worker of the active job sends the transcript of its capture.
FfWorkerSend ==
    /\ IsSome(voice_manager.job)
    /\ Unwrap(voice_manager.job).alive
    /\ voice_manager' = [voice_manager EXCEPT
           !.job = Some([Unwrap(@) EXCEPT
                            !.chan = Some(TranscriptMsg(TextAt(clock), "Native", 0)),
                            !.alive = FALSE])]
    /\ pty_out' = <<>>
    /\ writer_out' = <<>>
    /\ step' = step
    /\ UNCHANGED <<clock, voice_send_mode, auto_voice_enabled, last_auto_trigger_at,
                   last_enter_at, pending_transcripts, status_clear_deadline,
                   current_status, prompt_tracker, running, pc, writer, parser,
                   sigwinch_received, scope>>

\* Lines 301-332: the user's Enter.
FfEnter ==
    /\ InLoop
    /\ \E now \in SelectWindow, waits \in scope.waits, pty_ok \in BOOLEAN :
         LET r == enter_key(Began(now, waits), pty_ok)
         IN  /\ Ended(r.s)
             /\ Commit(r.s)
             /\ running' = r.running
    /\ step' = StepRec("enter", None)
    /\ UNCHANGED <<voice_send_mode, auto_voice_enabled, pc>>

\* Lines 341-369: PTY output is fed to the tracker and the queue flushed; the
\* writer takes the chunk.
FfOutput ==
    /\ InLoop
    /\ step' = StepRec("output", None)
    /\ \E now \in SelectWindow, waits \in scope.waits, data \in scope.chunks,
          pty_ok \in BOOLEAN :
         LET r == pty_output(Began(now, waits), data, pty_ok, TRUE)
         IN  /\ Ended(r.s)
             /\ Commit(r.s)
    /\ UNCHANGED <<voice_send_mode, auto_voice_enabled, running, pc>>

\* Lines 262-278: the send mode is toggled and announced.
FfToggleMode ==
    /\ InLoop
    /\ clock < MaxToggleTime
    /\ \E now \in SelectWindow, waits \in scope.waits :
         LET mode == IF voice_send_mode = "Auto" THEN "Insert" ELSE "Auto"
             msg == IF mode = "Auto" THEN Plain("Send mode: auto (sends Enter)")
                    ELSE Plain("Send mode: insert (press Enter to send)")
             s == set_status(Began(now, waits), msg, Some(ClearAfterLong))
         IN  /\ voice_send_mode' = mode
             /\ Ended(s)
             /\ Commit(s)
    /\ step' = StepRec("toggle", None)
    /\ UNCHANGED <<auto_voice_enabled, running, pc>>

\* The Transcript the poll of this tick returns, if it returns one.
PolledTranscript ==
    LET ret == poll_message(voice_manager).ret
    IN  IF IsSome(ret) /\ Unwrap(ret).type = "Transcript" THEN ret ELSE None

\* Lines 370-563: a tick; step keeps the transcript it polled.  With
\* auto-voice off and no SIGWINCH the tick starts no capture and reads no
\* terminal size.
FfTick ==
    /\ InLoop
    /\ step' = StepRec("tick", PolledTranscript)
    /\ \E at \in TimeoutWindow, waits \in scope.waits, pty_ok \in BOOLEAN,
          flush_ok \in BOOLEAN :
         LET sw == AtomicBool_swap(sigwinch_received, FALSE)
             env == [transcriber_loads |-> TRUE, recorder_opens |-> TRUE]
             s == default_arm(Began(at, waits), sw.ret, None, None, pty_ok, flush_ok, env)
         IN  /\ sigwinch_received' = sw.flag
             /\ Ended(s)
             /\ CommitLocals(s)
             /\ writer' = writer
    /\ UNCHANGED <<voice_send_mode, auto_voice_enabled, running, pc>>

FifoNext ==
    \/ Startup
    \/ VoiceTrigger
    \/ FfWorkerSend
    \/ FfEnter
    \/ FfOutput
    \/ FfToggleMode
    \/ FfTick

SpecFifo == FifoInit /\ [][FifoNext]_vars

\* The letters the coordinator holds in a step, oldest first: those of the
\* queue, less the oldest entry when the queue is full and a transcript
\* arrives, and then that of the transcript polled in the step.
LettersHeld(ret) ==
    IF ret = None THEN LettersQueued(pending_transcripts)
    ELSE IF Len(pending_transcripts) = MAX_PENDING_TRANSCRIPTS
    THEN LettersQueued(Tail(pending_transcripts)) \o Letters(Unwrap(ret).text)
    ELSE LettersQueued(pending_transcripts) \o Letters(Unwrap(ret).text)

\* The step wrote the oldest letters held, in order, and kept the rest queued,
\* in order.
InOrder(held) ==
    \E n \in 0..Len(held) :
        /\ LettersWritten(pty_out') = SubSeq(held, 1, n)
        /\ LettersQueued(pending_transcripts') = SubSeq(held, n + 1, Len(held))

RECURSIVE IsSubSeq(_, _)
\* part is whole with some of its letters left out.
IsSubSeq(part, whole) ==
    IF part = <<>> THEN TRUE
    ELSE IF whole = <<>> THEN FALSE
    ELSE IF Head(part) = Head(whole) THEN IsSubSeq(Tail(part), Tail(whole))
    ELSE IsSubSeq(part, Tail(whole))

\* C33 as stated: texts reach the PTY in the order in which their transcripts
\* were polled, a new transcript never overtakes a queued one, and the only
\* transcripts not delivered are those dropped by queue overflow or empty
\* after trimming: each tick and each PTY output writes the oldest letters
\* held and keeps the rest queued, and none is lost.
C33_FifoNothingLost ==
    [][(FfTick \/ FfOutput) => InOrder(LettersHeld(step'.detail))]_vars

\* C33, amended: as stated, and a transcript whose PTY write fails is not
\* delivered either: the letters written in a step, followed by those kept
\* queued, are the letters held with those of the failed writes left out, in
\* the order in which they were held; a step without a failed write loses no
\* letter.
C33_FifoDelivery ==
    [][(FfTick \/ FfOutput) =>
         /\ IsSubSeq(LettersWritten(pty_out')
                         \o LettersQueued(pending_transcripts'),
                     LettersHeld(step'.detail))
         /\ (\A i \in 1..Len(pty_out') : pty_out'[i] # WriteFailed) =>
                InOrder(LettersHeld(step'.detail))]_vars

\* A tick polled " b" while "a" was queued and the child was ready: both went
\* to the PTY in one write, the queued one first.
C33_Witness ==
    /\ step.kind = "tick"
    /\ step.detail # None
    /\ Unwrap(step.detail).text = <<SP, "b">>
    /\ \E i \in 1..Len(pty_out) : Letters(pty_out[i]) = <<"a", "b">>
    /\ pending_transcripts = <<>>
----------------------------------------------------------------------------
(* Properties of the send mode of queued transcripts *)

\* The number of entries at the front of queue that share the mode of the
\* first.
GroupLen(queue) ==
    CHOOSE n \in 1..Len(queue) :
        /\ \A i \in 1..n : queue[i].mode = queue[1].mode
        /\ n = Len(queue) \/ queue[n + 1].mode # queue[1].mode

\* C34: a transcript is queued with the send mode in effect at that moment; a
\* toggle of the send mode leaves the queue as it is; a flush takes the
\* entries at the front that share the mode recorded in the first and
\* delivers them in that mode, with the submit key exactly when it is Auto,
\* whatever the send mode is at the flush.
C34_ModeAtEnqueue ==
    [][/\ DlvPush =>
            /\ Len(pending_transcripts') = Len(pending_transcripts) + 1
            /\ SubSeq(pending_transcripts', 1, Len(pending_transcripts)) =
                   pending_transcripts
            /\ pending_transcripts'[Len(pending_transcripts')].mode =
                   voice_send_mode
       /\ DlvToggleMode =>
            /\ voice_send_mode' # voice_send_mode
            /\ pending_transcripts' = pending_transcripts
       /\ (DlvFlush /\ step'.detail.ready /\ pending_transcripts # <<>>) =>
            /\ pending_transcripts' =
                   SubSeq(pending_transcripts, GroupLen(pending_transcripts) + 1,
                          Len(pending_transcripts))
            /\ (pty_out' # <<>> /\ step'.detail.pty_ok) =>
                   (WroteSubmitKey(pty_out') <=>
                        pending_transcripts[1].mode = "Auto")]_vars

\* A flush in Auto mode has delivered the entry queued in Insert mode, without
\* the submit key, and left the entry queued after it in Auto mode.
C34_Witness ==
    /\ step.kind = "try_flush_pending"
    /\ step.detail.ready
    /\ step.detail.pty_ok
    /\ voice_send_mode = "Auto"
    /\ Len(step.detail.pending) = 2
    /\ step.detail.pending[1].mode = "Insert"
    /\ step.detail.pending[2].mode = "Auto"
    /\ pty_out = << <<"a">> >>
    /\ pending_transcripts = Tail(step.detail.pending)
----------------------------------------------------------------------------
(* Invariants of the voice manager *)

\* A poll found a message in the channel and returned nothing.
MessageDiscarded ==
    /\ VmPoll
    /\ voice_manager.job # None
    /\ voice_manager.job[1].chan # None
    /\ step'.detail.ret = None

\* C35: under start_capture, cancel_capture, request_early_stop and
\* poll_message in any order, active_source is set exactly when a job is
\* present and cancel_pending is true only while a job is present; a job that
\* has just started has cancel_pending false, and a poll discards a message
\* only of a job that was itself asked to stop by a cancel.
C35_ManagerInvariants ==
    /\ [](/\ voice_manager.active_source # None <=> voice_manager.job # None
          /\ voice_manager.cancel_pending => voice_manager.job # None)
    /\ [][/\ (voice_manager.job = None /\ voice_manager'.job # None) =>
                /\ ~voice_manager'.cancel_pending
                /\ ~voice_manager'.job[1].stop_flag
          /\ MessageDiscarded =>
                /\ voice_manager.cancel_pending
                /\ voice_manager.job[1].stop_flag]_vars

\* A poll has returned the transcript of a capture that was asked to stop
\* early and was not cancelled, and has left the manager without job, source
\* or cancel mark.
C35_Witness ==
    /\ step.kind = "poll_message"
    /\ step.detail.ret # None
    /\ Unwrap(step.detail.ret).type = "Transcript"
    /\ step.detail.stopped
    /\ ~step.detail.cancelled
    /\ voice_manager.job = None
    /\ voice_manager.active_source = None
    /\ ~voice_manager.cancel_pending
----------------------------------------------------------------------------
(* The status line at exit *)

\* The writer receives Shutdown as the message after ClearStatus, as main
\* sends them at exit (lines 567-568).
ShutdownAfterClear ==
    /\ WrMessage
    /\ step.kind = "recv"
    /\ step.detail = <<"ClearStatus">>
    /\ step'.detail = <<"Shutdown">>

\* C36: when the coordinator shuts down, the ClearStatus it sends takes effect
\* before Shutdown ends the writer thread, whatever the recent PTY output and
\* status draws: when Shutdown is received next after ClearStatus, no status
\* is displayed any more.
C36_StatusClearedAtExit ==
    [][ShutdownAfterClear => writer.status = None]_vars
----------------------------------------------------------------------------
(* SpecLines: the prompt tracker fed with lines that end in a line feed or  *)
(* in carriage return and line feed                                         *)

\* A short partial line that looks like a prompt, the line the regex matches
\* ended by a line feed and by carriage return and line feed, a completed
\* line that is no prompt, and the two line terminators alone.
LineScope ==
    [status |-> FALSE,
     texts |-> {},
     sources |-> {"Native"},
     frames |-> {0},
     chunks |-> { <<"$">>, <<">", LF>>, <<">", CR, LF>>, <<"x", LF>>, <<LF>>,
                  <<CR, LF>> }]

LinesInit == TrackerInit(LineScope)

SpecLines == LinesInit /\ [][PromptNext]_vars

\* The chunk ends with a line feed.
EndsLine(data) == data # <<>> /\ data[Len(data)] = LF

\* The chunk ends with carriage return and line feed.
EndsLineCrLf(data) ==
    EndsLine(data) /\ Len(data) >= 2 /\ data[Len(data) - 1] = CR

\* The text of the chunk before its line terminator.
LineText(data) ==
    IF EndsLineCrLf(data) THEN SubSeq(data, 1, Len(data) - 2)
    ELSE SubSeq(data, 1, Len(data) - 1)

\* The line the child has printed when the chunk data completes it.
PrintedLine(data) == prompt_tracker.current_line \o LineText(data)

\* The step is feed_output(data).
PtFeedOf(data) ==
    /\ PtFeed
    /\ Len(prompt_tracker.current_line) + Len(data) <= MaxLineLen
    /\ prompt_tracker' = feed_output(prompt_tracker, data, clock)

\* feed_output has recorded the line and detected the prompt at this instant.
DetectedAtCompletion(line) ==
    /\ prompt_tracker'.last_line = Some(line)
    /\ prompt_tracker'.last_prompt_seen_at = Some(clock)

\* C37 as stated: whenever the child prints a line that matches the configured
\* or learned prompt and terminates it, with a bare line feed or with carriage
\* return and line feed, feed_output records it as last_line and sets
\* last_prompt_seen_at to the time of that line completion.
C37_PromptOnCompletedLine ==
    [][\A data \in scope.chunks :
         (/\ PtFeedOf(data)
          /\ EndsLine(data)
          /\ matches_prompt(prompt_tracker, PrintedLine(data)))
         => DetectedAtCompletion(PrintedLine(data))]_vars

\* C37, amended: a matching line terminated with a bare line feed is recorded
\* as last_line and sets last_prompt_seen_at at its completion; when the line
\* is terminated with carriage return and line feed the carriage return clears
\* it, and feed_output records and detects nothing.
C37_PromptOnLineFeed ==
    [][\A data \in scope.chunks :
         (/\ PtFeedOf(data)
          /\ EndsLine(data)
          /\ matches_prompt(prompt_tracker, PrintedLine(data)))
         => IF EndsLineCrLf(data)
            THEN /\ prompt_tracker'.last_line = prompt_tracker.last_line
                 /\ prompt_tracker'.last_prompt_seen_at =
                        prompt_tracker.last_prompt_seen_at
                 /\ prompt_tracker'.current_line = <<>>
            ELSE DetectedAtCompletion(PrintedLine(data))]_vars

\* A line feed has completed the partial line "$", which is the learned
\* prompt, at an instant later than the learning.
C37_Witness ==
    /\ step.kind = "feed_output"
    /\ step.detail.before.current_line = <<"$">>
    /\ step.detail.before.learned_prompt = Some(<<"$">>)
    /\ step.detail.before.last_line = None
    /\ step.detail.before.last_prompt_seen_at # Some(clock)
    /\ prompt_tracker.current_line = <<>>
    /\ prompt_tracker.last_line = Some(<<"$">>)
    /\ prompt_tracker.last_prompt_seen_at = Some(clock)
----------------------------------------------------------------------------
(* The decoder and the boundaries of the reads *)

\* The control events among the events, in order.
ControlEvents(out) == SelectSeq(out, LAMBDA e : e[1] # "Bytes")

RECURSIVE ForwardedBytes(_)
\* The bytes of the Bytes events, in order.
ForwardedBytes(out) ==
    IF out = <<>> THEN <<>>
    ELSE (IF Head(out)[1] = "Bytes" THEN Head(out)[2] ELSE <<>>)
             \o ForwardedBytes(Tail(out))

\* What the input thread emits for the bytes fed so far when they come in one
\* read: consume_bytes and the flush at the end of the read.
OneRead(bytes) == flush_pending(consume_bytes(InputParser_new, bytes))

\* C38: the control events and the bytes forwarded to the child are the same
\* however the bytes fed so far were split into reads, each read followed by
\* the end-of-batch flush: once the read in progress ends, they are those of
\* the same bytes taken in one read.
C38_ReadBatchIndependence ==
    /\ ControlEvents(flush_pending(parser).out) = ControlEvents(OneRead(Stream).out)
    /\ ForwardedBytes(flush_pending(parser).out) = ForwardedBytes(OneRead(Stream).out)
----------------------------------------------------------------------------
(* The overlay keys and the escape sequences *)

\* The control bytes of the overlay: 0x11, 0x12, 0x16, 0x14, 0x1d, 0x1c, 0x1f
\* and 0x0d.
OverlayKeys == {DC1, DC2, SYN, DC4, GS, FS, US, CR}

\* The byte fed has given its control event: pending bytes first, then the
\* event, and nothing is kept in the decoder.
KeyRecognised ==
    /\ parser'.out =
           parser.out
           \o (IF parser.pending # <<>> THEN << <<"Bytes", parser.pending>> >>
               ELSE <<>>)
           \o << FixedEvent(FedByte) >>
    /\ parser'.pending = <<>>
    /\ parser'.esc_buffer = None

\* The byte fed has gone into the escape sequence in progress: no event, and
\* the byte is the last of the escape buffer or, the sequence given up as
\* literal bytes, the last of the pending bytes.
KeyAbsorbed ==
    /\ parser'.out = parser.out
    /\ \/ /\ parser'.esc_buffer = Some(Append(parser.esc_buffer[1], FedByte))
          /\ parser'.pending = parser.pending
       \/ /\ parser'.esc_buffer = None
          /\ parser'.pending = parser.pending \o Append(parser.esc_buffer[1], FedByte)

\* C39 as stated: a control byte of the overlay fed in any decoder state,
\* also directly after ESC or inside an unterminated CSI sequence, yields its
\* control event and is neither forwarded as a literal byte nor absorbed.
C39_OverlayKeysAlways ==
    [][(Feeds /\ FedByte \in OverlayKeys) => KeyRecognised]_vars

\* C39, amended: a control byte of the overlay fed while no escape sequence is
\* in progress yields its control event; fed directly after ESC it joins the
\* ESC in the pending bytes, which go to the child, and fed inside an
\* unterminated CSI sequence it is absorbed into the sequence, in both cases
\* without a control event.
C39_OverlayKeysOutsideEscape ==
    [][(Feeds /\ FedByte \in OverlayKeys) =>
         IF parser.esc_buffer = None THEN KeyRecognised
         ELSE /\ KeyAbsorbed
              /\ parser.esc_buffer = Some(<<ESC>>) =>
                     /\ parser'.esc_buffer = None
                     /\ parser'.pending = parser.pending \o <<ESC, FedByte>>
              /\ InCsi => parser'.esc_buffer # None]_vars

\* Ctrl+Q was fed directly after ESC: no Exit event, both bytes are pending.
C39_Witness ==
    /\ step.kind = "consume_bytes"
    /\ Stream = <<"x", ESC, DC1>>
    /\ parser.out = <<>>
    /\ parser.pending = <<"x", ESC, DC1>>
    /\ parser.esc_buffer = None
----------------------------------------------------------------------------
(* The line feed after a carriage return *)

\* C40: the decoder drops a line feed without an EnterKey only when the byte
\* fed immediately before it was a carriage return; with any other input
\* between the carriage return and the line feed, the line feed fed while no
\* escape sequence is in progress yields its own EnterKey.
C40_LfSwallowedOnlyAfterCr ==
    [][(/\ Feeds
        /\ FedByte = LF
        /\ parser.esc_buffer = None
        /\ ~(Stream # <<>> /\ Stream[Len(Stream)] = CR))
       => /\ parser'.out # <<>>
          /\ Len(parser'.out) > Len(parser.out)
          /\ parser'.out[Len(parser'.out)] = <<"EnterKey">>]_vars

============================================================================
